---- MODULE Spec2Model ----
(***************************************************************************)
(* Model of the agent coordination core of kasparro-agentic-content-system *)
(* (MessageBus, AgentRegistry, TaskQueue, AutonomousAgent,                 *)
(* OrchestratorAgent).  JavaScript runs one callback at a time: every      *)
(* action below is one run-to-completion step (an API call, or the         *)
(* continuation of an async function after an await), including every      *)
(* handler that the bus invokes synchronously inside it.                   *)
(***************************************************************************)
EXTENDS Integers, Sequences, FiniteSets, TLC

\* ------------------------------------------------------------------ bounds
MaxTasks == 2
MaxScanTasks == 3
MaxRetryTasks == 1
MaxRetry == 2
MaxFail == 3
MaxSubs == 2
MaxPublish == 2
MaxRuns == 2
MaxPrioTasks == 3
MaxErrPublish == 1
MaxRequests == 1
MaxCorrelating == 1
MaxRawData == 1
MaxWaits == 1
MaxResponses == 1

\* ------------------------------------------------------- program constants
LOW == 0
NORMAL == 1
HIGH == 2
DefaultMaxRetries == 3
CheckInterval == 50

Workers == {"w1", "w2"}
AllWorkers == Workers \cup {"w3"}
Caps == {"c1", "c2"}
None == "none"
UnknownId == 0

INITIALIZING == "initializing"
READY == "ready"
BUSY == "busy"
ERROR == "error"
OFFLINE == "offline"
AgentStatus == {INITIALIZING, READY, BUSY, ERROR, OFFLINE}

PENDING == "pending"
ASSIGNED == "assigned"
IN_PROGRESS == "in_progress"
COMPLETED == "completed"
FAILED == "failed"

VARIABLES
  agents,           \* AgentRegistry.agents: id -> status, None when not registered
  agentCaps,        \* AgentRecord.capabilities of the current record of each id
  capabilityIndex,  \* AgentRegistry.capabilityIndex: capability -> ids, in insertion order
  registrationOrder, \* the registered ids, by the registeredAt of their records
  tasks,            \* TaskQueue.tasks: 1..taskIdCounter -> Task
  pendingQueue,     \* TaskQueue.pendingQueue
  agentObj,         \* ids for which an AutonomousAgent object was constructed
  isRunning,        \* AutonomousAgent.isRunning
  inflight,         \* handleTaskAssignment calls suspended at `await processTask`
  lifeCont,         \* start()/stop() calls suspended at `await onStart/onStop`
  listeners,        \* MessageBus.emitter: the listeners registered by subscribe, in order
  subscriptions,    \* MessageBus.subscriptions: the listeners still listed as subscribed
  messageHistory,   \* MessageBus.messageHistory
  invocations,      \* every handler invocation so far: <<listener, message id>>, in order
  rejections,       \* wrapped handlers suspended at `await handler(message)` that will reject
  suspended,        \* handler invocations suspended at an await of their own
  resetAt,          \* the number of listeners registered before the last MessageBus.reset
  messageIdCounter, \* MessageBus.messageIdCounter
  requests,         \* the request calls so far: correlation id, listener, timer, promise
  pipelineState,    \* OrchestratorAgent.pipelineState (pages: the run whose pages object it holds)
  pagesOf,          \* the pages object created for each run: the page types stored in it
  promises,         \* the promises returned by runPipeline, in call order
  orchRunning,      \* the orchestrator's isRunning
  published,        \* the topics the orchestrator has published, in order
  lastEvent,        \* the event the orchestrator handled in the last step
  ingestRunning,    \* isRunning of the DataIngestionAgent
  ingestLog,        \* each RAW_DATA_RECEIVED published: the input and what came of it
  waits,            \* the waitForTask calls so far: task id, budget, elapsed, promise
  constructed,      \* the generators and the page assembler, in the order of their construction
  started,          \* the workers (but the coordinator) whose isRunning is true
  assembler,        \* PageAssemblyAgent.state: the data it holds, by the run they derive from
  pageEvents,       \* the PAGE_ASSEMBLED messages the coordinator handled, in order
  caught,           \* runs whose normalization threw, the wrapped handler's catch pending
  runLog            \* each runPipeline call: its input and whether all six workers were started

qvars == <<agents, agentCaps, capabilityIndex, registrationOrder, tasks, pendingQueue, agentObj,
           isRunning, inflight, lifeCont>>

bvars == <<listeners, subscriptions, messageHistory, invocations, rejections,
           suspended, resetAt, messageIdCounter, requests>>

pvars == <<pipelineState, pagesOf, promises, orchRunning, published, lastEvent>>

ivars == <<ingestRunning, ingestLog>>

wvars == <<waits>>

svars == <<constructed, started, assembler, pageEvents, caught, runLog>>

vars == <<qvars, bvars, pvars, ivars, wvars, svars>>

TaskIds == 1..MaxScanTasks

\* The queue/registry/worker state as one value, so that handlers compose.
\* lastAssign, lastCompletion and announced are the trace of one step: the
\* assignments a processQueue scan makes, the report handleTaskCompletion
\* consumes, and the AGENT_READY messages the registry publishes.
QState ==
  [agents |-> agents, agentCaps |-> agentCaps, capabilityIndex |-> capabilityIndex,
   registrationOrder |-> registrationOrder, tasks |-> tasks, pendingQueue |-> pendingQueue, agentObj |-> agentObj,
   isRunning |-> isRunning, inflight |-> inflight, lifeCont |-> lifeCont,
   lastAssign |-> <<>>, lastCompletion |-> None, announced |-> <<>>,
   heartbeats |-> {}]

Commit(s) ==
  /\ agents' = s.agents
  /\ agentCaps' = s.agentCaps
  /\ capabilityIndex' = s.capabilityIndex
  /\ registrationOrder' = s.registrationOrder
  /\ tasks' = s.tasks
  /\ pendingQueue' = s.pendingQueue
  /\ agentObj' = s.agentObj
  /\ isRunning' = s.isRunning
  /\ inflight' = s.inflight
  /\ lifeCont' = s.lifeCont
  /\ UNCHANGED <<bvars, pvars, ivars, wvars, svars>>

\* ---------------------------------------------------------- AgentRegistry
AddToIndex(seq, id) ==
  IF \E i \in 1..Len(seq) : seq[i] = id THEN seq ELSE Append(seq, id)

RemoveFromIndex(seq, id) == SelectSeq(seq, LAMBDA x : x # id)

register(s, id, caps) ==
  [s EXCEPT !.agents[id] = INITIALIZING,
            !.agentCaps[id] = caps,
            !.registrationOrder = Append(RemoveFromIndex(@, id), id),
            !.capabilityIndex = [c \in Caps |->
               IF c \in caps THEN AddToIndex(@[c], id) ELSE @[c]]]

unregister(s, id) ==
  IF s.agents[id] = None THEN s
  ELSE [s EXCEPT !.capabilityIndex = [c \in Caps |->
                    IF c \in s.agentCaps[id] THEN RemoveFromIndex(@[c], id) ELSE @[c]],
                 !.agents[id] = None,
                 !.agentCaps[id] = {},
                 !.registrationOrder = RemoveFromIndex(@, id)]

\* the value unregister(id) returns: false for an id without a record
unregisterReturns(s, id) == s.agents[id] # None

updateStatusAnnouncesAll(s, id, status) ==
  IF s.agents[id] # None
  THEN [s EXCEPT !.agents[id] = status,
                 !.announced = Append(@, [agentId |-> id, target |-> None])]
  ELSE s

\* record.lastHeartbeat = new Date(): heartbeats collects the ids of the records
\* whose lastHeartbeat a step renewed
heartbeat(s, id) ==
  IF s.agents[id] # None THEN [s EXCEPT !.heartbeats = @ \cup {id}] ELSE s

\* updateStatus; to READY it publishes AGENT_READY { agentId } without a target
updateStatus(s, id, status) ==
  IF s.agents[id] # None
  THEN [s EXCEPT !.agents[id] = status,
                 !.heartbeats = @ \cup {id},
                 !.announced = IF status = READY
                               THEN Append(@, [agentId |-> id, target |-> None])
                               ELSE @]
  ELSE s

findByCapabilityUnfiltered(s, c) == s.capabilityIndex[c]

findByCapability(s, c) ==
  SelectSeq(s.capabilityIndex[c], LAMBDA id : s.agents[id] # None)

findReadyByCapabilityAnyStatus(s, c) == findByCapability(s, c)

findReadyByCapabilityNewestFirst(s, c) ==
  LET ready == SelectSeq(findByCapability(s, c), LAMBDA id : s.agents[id] = READY)
  IN [i \in 1..Len(ready) |-> ready[Len(ready) + 1 - i]]

findReadyByCapability(s, c) ==
  SelectSeq(findByCapability(s, c), LAMBDA id : s.agents[id] = READY)

\* -------------------------------------------------------------- TaskQueue
NewTask(cap, prio, deps, maxRetries) ==
  [requiredCapability |-> cap, priority |-> prio, status |-> PENDING,
   assignedTo |-> None, retryCount |-> 0, maxRetries |-> maxRetries,
   dependencies |-> deps, result |-> None, error |-> None, failures |-> 0]

Known(s, t) == t \in DOMAIN s.tasks

\* enqueue: before the first entry of strictly lower priority, else at the end
InsertAt(seq, i, x) == SubSeq(seq, 1, i - 1) \o <<x>> \o SubSeq(seq, i, Len(seq))

enqueueAtEnd(s, t) ==
  IF ~Known(s, t) THEN s ELSE [s EXCEPT !.pendingQueue = Append(@, t)]

enqueue(s, t) ==
  IF ~Known(s, t) THEN s
  ELSE LET q == s.pendingQueue
           lower == {i \in 1..Len(q) :
                       Known(s, q[i]) /\ s.tasks[t].priority > s.tasks[q[i]].priority}
       IN IF lower = {} THEN [s EXCEPT !.pendingQueue = Append(q, t)]
          ELSE [s EXCEPT !.pendingQueue =
                  InsertAt(q, CHOOSE i \in lower : \A j \in lower : i <= j, t)]

submit(s, cap, prio, deps, maxRetries) ==
  LET id == Len(s.tasks) + 1
  IN enqueue([s EXCEPT !.tasks = Append(@, NewTask(cap, prio, deps, maxRetries))], id)

areDependenciesMet(s, t) ==
  \A d \in s.tasks[t].dependencies : Known(s, d) /\ s.tasks[d].status = COMPLETED

startTaskAnyStatus(s, t) ==
  IF Known(s, t) THEN [s EXCEPT !.tasks[t].status = IN_PROGRESS] ELSE s

startTask(s, t) ==
  IF Known(s, t) /\ s.tasks[t].status = ASSIGNED
  THEN [s EXCEPT !.tasks[t].status = IN_PROGRESS] ELSE s

handleTaskAssignmentNoStart(s, w, t) ==
  [updateStatus(s, w, BUSY) EXCEPT !.inflight[w][t] = @ + 1]

\* AutonomousAgent.handleTaskAssignment up to its first await
handleTaskAssignmentSync(s, w, t) ==
  LET s1 == startTask(updateStatus(s, w, BUSY), t)
  IN [s1 EXCEPT !.inflight[w][t] = @ + 1]

\* publish(TASK_ASSIGNED, target w): every agent object subscribed under id w
deliverTaskAssigned(s, w, t) ==
  IF s.agentObj[w] THEN handleTaskAssignmentSync(s, w, t) ELSE s

RECURSIVE scan(_, _, _)
scan(s, i, assignedTasks) ==
  IF i > Len(s.pendingQueue)
  THEN [s EXCEPT !.pendingQueue = SelectSeq(@, LAMBDA id : id \notin assignedTasks)]
  ELSE LET t == s.pendingQueue[i] IN
       IF ~Known(s, t) \/ s.tasks[t].status # PENDING THEN scan(s, i + 1, assignedTasks)
       ELSE IF ~areDependenciesMet(s, t) THEN scan(s, i + 1, assignedTasks)
       ELSE LET ready == findReadyByCapability(s, s.tasks[t].requiredCapability) IN
            IF ready = <<>> THEN scan(s, i + 1, assignedTasks)
            ELSE LET agent == ready[1]
                     s1 == [s EXCEPT !.tasks[t].status = ASSIGNED,
                                     !.tasks[t].assignedTo = agent]
                     s2 == updateStatus(s1, agent, BUSY)
                     s3 == deliverTaskAssigned(s2, agent, t)
                     s4 == [s3 EXCEPT !.lastAssign = Append(@,
                              [task |-> t, agent |-> agent,
                               before |-> s.agents[agent], after |-> s2.agents[agent],
                               taskStatus |-> s2.tasks[t].status,
                               assignedTo |-> s2.tasks[t].assignedTo,
                               handled |-> s3.inflight[agent][t] > s2.inflight[agent][t],
                               agentHandled |-> s3.agents[agent],
                               taskHandled |-> s3.tasks[t].status])]
                 IN scan(s4, i + 1, assignedTasks \cup {t})

processQueueBackwards(s) ==
  scan([s EXCEPT !.pendingQueue = [i \in 1..Len(@) |-> @[Len(@) + 1 - i]]], 1, {})

processQueue(s) == scan(s, 1, {})

\* what a scan started in s could assign
Assignable(s) ==
  {t \in DOMAIN s.tasks :
     /\ s.tasks[t].status = PENDING
     /\ areDependenciesMet(s, t)
     /\ findReadyByCapability(s, s.tasks[t].requiredCapability) # <<>>}

consumeReportNoRetry(s, t, success, err) ==
  LET s1 == IF success
            THEN [s EXCEPT !.tasks[t].status = COMPLETED, !.tasks[t].result = "data"]
            ELSE [s EXCEPT !.tasks[t].retryCount = @ + 1, !.tasks[t].failures = @ + 1,
                           !.tasks[t].status = FAILED, !.tasks[t].error = err]
  IN IF s1.tasks[t].assignedTo # None
     THEN updateStatus(s1, s1.tasks[t].assignedTo, READY) ELSE s1

\* handleTaskCompletion up to (and including) the release of the worker
consumeReport(s, t, success, err) ==
  LET s1 == IF success
            THEN [s EXCEPT !.tasks[t].status = COMPLETED, !.tasks[t].result = "data"]
            ELSE LET rc == s.tasks[t].retryCount + 1
                     s0 == [s EXCEPT !.tasks[t].retryCount = rc,
                                     !.tasks[t].failures = @ + 1]
                 IN IF rc < s.tasks[t].maxRetries
                    THEN enqueue([s0 EXCEPT !.tasks[t].status = PENDING,
                                            !.tasks[t].assignedTo = None], t)
                    ELSE [s0 EXCEPT !.tasks[t].status = FAILED, !.tasks[t].error = err]
  IN IF s1.tasks[t].assignedTo # None
     THEN updateStatus(s1, s1.tasks[t].assignedTo, READY) ELSE s1

\* the trace of one handleTaskCompletion: s before it, s2 after the report was
\* consumed and the worker released, s3 after the processQueue it triggers
recordCompletion(s, s2, s3, t, success) ==
  [s3 EXCEPT !.lastCompletion =
     [task |-> t,
      kind |-> IF success THEN "completed"
               ELSE IF s2.tasks[t].status = FAILED THEN "failed" ELSE "retry",
      agent |-> s.tasks[t].assignedTo,
      agentAfter |-> IF s.tasks[t].assignedTo = None THEN None
                     ELSE s2.agents[s.tasks[t].assignedTo],
      eligible |-> Assignable(s2),
      assigned |-> {s3.lastAssign[i].task : i \in 1..Len(s3.lastAssign)},
      leftover |-> Assignable(s3)]]

handleTaskCompletionNoRescan(s, t, success, err) ==
  IF ~Known(s, t) THEN s
  ELSE LET s2 == consumeReport(s, t, success, err)
       IN recordCompletion(s, s2, s2, t, success)

handleTaskCompletion(s, t, success, err) ==
  IF ~Known(s, t) THEN s
  ELSE LET s2 == consumeReport(s, t, success, err)
       IN recordCompletion(s, s2, processQueue(s2), t, success)

\* completeTask / failTask publish TASK_COMPLETED; the queue's subscriber consumes it
completeTask(s, t) == IF ~Known(s, t) THEN s ELSE handleTaskCompletion(s, t, TRUE, None)

failTask(s, t, err) == IF ~Known(s, t) THEN s ELSE handleTaskCompletion(s, t, FALSE, err)

\* ------------------------------------------------------------- MessageBus
BusAgents == {"a1", "a2"}
Topics == {"T1", "T2"}
External == "ext"

\* what a subscribed handler does with a message: nothing, or publish a message
\* of its own on the same topic before it returns (only for a message that came
\* from outside, so that the dispatch ends)
Handlers == {"quiet", "republish"}

\* handlers that an agent passes to AutonomousAgent.subscribe and that fail on a
\* message from outside: by throwing, or by returning a promise that rejects
FailingHandlers == {"throws", "rejects"}

\* async handlers passed to MessageBus.subscribe: one that returns at once and
\* one that suspends at an await and finishes later
AsyncHandlers == {"quiet", "suspends"}

\* handlers that publish with { correlationId: message.correlationId }, as the
\* agents of the repository do: "respond" on the other topic, "forward" on the
\* topic of the message (both only for a message that came from outside)
CorrelatingHandlers == {"respond", "forward"}

\* a message published without a correlationId
NoCorrelation == 0

\* the handler of the listener that request registers on the emitter
ResponseHandler == "response"

AGENT_ERROR == "AGENT_ERROR"

\* raised: an exception is propagating out of the current call
BState ==
  [listeners |-> listeners, subscriptions |-> subscriptions,
   messageHistory |-> messageHistory, invocations |-> invocations,
   rejections |-> rejections, suspended |-> suspended, resetAt |-> resetAt,
   messageIdCounter |-> messageIdCounter,
   requests |-> requests, raised |-> FALSE]

BCommit(b) ==
  /\ listeners' = b.listeners
  /\ subscriptions' = b.subscriptions
  /\ messageHistory' = b.messageHistory
  /\ invocations' = b.invocations
  /\ rejections' = b.rejections
  /\ suspended' = b.suspended
  /\ resetAt' = b.resetAt
  /\ messageIdCounter' = b.messageIdCounter
  /\ requests' = b.requests
  /\ UNCHANGED <<qvars, pvars, ivars, wvars, svars>>

\* the subscription list of a topic, as listener numbers
subscribersOf(b, topic) ==
  SelectSeq(b.subscriptions, LAMBDA l : b.listeners[l].topic = topic)

resetKeepsListeners(b) ==
  [b EXCEPT !.subscriptions = <<>>,
            !.messageHistory = <<>>,
            !.messageIdCounter = 0,
            !.invocations = <<>>]

\* MessageBus.reset: removeAllListeners, clear the subscriptions, empty the
\* history, restart the id counter (the instance made afterwards is as empty);
\* invocations, the record of what was invoked, starts again with it
reset(b) ==
  [b EXCEPT !.resetAt = Len(b.listeners),
            !.subscriptions = <<>>,
            !.messageHistory = <<>>,
            !.messageIdCounter = 0,
            !.invocations = <<>>]

subscribe(b, agentId, topic, h) ==
  [b EXCEPT !.listeners = Append(@, [agentId |-> agentId, topic |-> topic, handler |-> h]),
            !.subscriptions = Append(@, Len(b.listeners) + 1)]

unsubscribe(b, agentId, topic) ==
  [b EXCEPT !.subscriptions = SelectSeq(@, LAMBDA l :
     ~(b.listeners[l].topic = topic /\ b.listeners[l].agentId = agentId))]

\* listener l is no longer on the emitter: emitter.off(responseType,
\* responseHandler) was called for it, or removeAllListeners since it was added
removed(b, l) ==
  \/ l <= b.resetAt
  \/ \E r \in 1..Len(b.requests) : b.requests[r].listener = l /\ ~b.requests[r].listening

listenersOnReversed(b, topic) ==
  LET ls == SelectSeq([i \in 1..Len(b.listeners) |-> i],
                      LAMBDA l : b.listeners[l].topic = topic /\ ~removed(b, l))
  IN [i \in 1..Len(ls) |-> ls[Len(ls) + 1 - i]]

\* the emitter's listeners of a topic, in registration order
listenersOn(b, topic) ==
  SelectSeq([i \in 1..Len(b.listeners) |-> i],
            LAMBDA l : b.listeners[l].topic = topic /\ ~removed(b, l))

OtherTopic(topic) == CHOOSE t \in Topics : t # topic

\* the listener that subscribe registers: deliver if broadcast or targeted at agentId
delivers(b, l, m) == m.target = None \/ m.target = b.listeners[l].agentId

RECURSIVE publishWith(_, _, _, _, _, _)
RECURSIVE emit(_, _, _, _)
RECURSIVE emitAwaiting(_, _, _, _)
RECURSIVE invoke(_, _, _)

publishWithEmitFirst(b, source, topic, target, cause, correlationId) ==
  LET m == [id |-> b.messageIdCounter + 1, topic |-> topic, source |-> source,
            target |-> target, cause |-> cause, correlationId |-> correlationId,
            subscribed |-> {subscribersOf(b, topic)[i] :
                              i \in 1..Len(subscribersOf(b, topic))}]
      b1 == [b EXCEPT !.messageIdCounter = @ + 1]
      b2 == emit(b1, m, listenersOn(b1, topic), 1)
  IN [b2 EXCEPT !.messageHistory = Append(@, m)]

\* publish(source, type, payload, { target, correlationId }); cause is the id of
\* the message named in an AGENT_ERROR payload
publishWith(b, source, topic, target, cause, correlationId) ==
  LET m == [id |-> b.messageIdCounter + 1, topic |-> topic, source |-> source,
            target |-> target, cause |-> cause, correlationId |-> correlationId,
            subscribed |-> {subscribersOf(b, topic)[i] :
                              i \in 1..Len(subscribersOf(b, topic))}]
      b1 == [b EXCEPT !.messageIdCounter = @ + 1, !.messageHistory = Append(@, m)]
  IN emit(b1, m, listenersOn(b1, topic), 1)

publishCaused(b, source, topic, target, cause) ==
  publishWith(b, source, topic, target, cause, NoCorrelation)

publish(b, source, topic, target) == publishCaused(b, source, topic, target, None)

\* the request whose responseHandler is listener l
RequestOf(b, l) == CHOOSE r \in 1..Len(b.requests) : b.requests[r].listener = l

\* request's responseHandler: a response with the request's correlation id clears
\* the timer, removes the listener and resolves the promise (a settled promise
\* stays as it is)
responseHandler(b, l, m) ==
  LET r == RequestOf(b, l) IN
    IF m.correlationId = b.requests[r].correlationId
    THEN [b EXCEPT !.requests[r].timer = FALSE,
                   !.requests[r].listening = FALSE,
                   !.requests[r].state = IF @ = "pending" THEN "resolved" ELSE @,
                   !.requests[r].response =
                      IF b.requests[r].state = "pending" THEN m.id ELSE @]
    ELSE b

requestTimeoutKeepsListener(b, r) ==
  [b EXCEPT !.requests[r].timer = FALSE,
            !.requests[r].state = IF @ = "pending" THEN "rejected" ELSE @,
            !.requests[r].error =
               IF b.requests[r].state = "pending" THEN b.requests[r].requestType ELSE @]

\* the timeout callback of request: remove the listener, reject with
\* `Request timeout for ${requestType}`
requestTimeout(b, r) ==
  [b EXCEPT !.requests[r].timer = FALSE,
            !.requests[r].listening = FALSE,
            !.requests[r].state = IF @ = "pending" THEN "rejected" ELSE @,
            !.requests[r].error =
               IF b.requests[r].state = "pending" THEN b.requests[r].requestType ELSE @]

\* request(source, requestType, responseType, payload, target)
request(b, source, requestType, responseType, target) ==
  LET correlationId == b.messageIdCounter + 1
      l == Len(b.listeners) + 1
      b1 == [b EXCEPT
               !.messageIdCounter = correlationId,
               !.requests = Append(@, [correlationId |-> correlationId,
                                       requestType |-> requestType,
                                       responseType |-> responseType,
                                       error |-> None,
                                       listener |-> l, listening |-> TRUE,
                                       timer |-> TRUE, state |-> "pending",
                                       response |-> NoCorrelation]),
               !.listeners = Append(@, [agentId |-> None, topic |-> responseType,
                                        handler |-> ResponseHandler])]
  IN publishWith(b1, source, requestType, target, None, correlationId)

\* AutonomousAgent.handleError: publish AGENT_ERROR with the agent's id
handleError(b, l, id) == publishCaused(b, b.listeners[l].agentId, AGENT_ERROR, None, id)

wrappedHandlerNoCatch(b, l, m) == [b EXCEPT !.raised = TRUE]

\* the wrapped handler of AutonomousAgent.subscribe when its handler throws
wrappedHandler(b, l, m) == handleError(b, l, m.id)

emitAwaiting(b, m, ls, i) ==
  IF i > Len(ls) \/ b.raised \/ \E r \in b.suspended : r.msg = m.id THEN b
  ELSE IF b.listeners[ls[i]].handler = ResponseHandler
       THEN emitAwaiting(responseHandler(b, ls[i], m), m, ls, i + 1)
  ELSE IF delivers(b, ls[i], m) THEN emitAwaiting(invoke(b, ls[i], m), m, ls, i + 1)
       ELSE emitAwaiting(b, m, ls, i + 1)

\* EventEmitter.emit: the listeners present when emit starts, one after the
\* other; an exception thrown by one of them ends the dispatch
emit(b, m, ls, i) ==
  IF i > Len(ls) \/ b.raised THEN b
  ELSE IF b.listeners[ls[i]].handler = ResponseHandler
       THEN emit(responseHandler(b, ls[i], m), m, ls, i + 1)
  ELSE IF delivers(b, ls[i], m) THEN emit(invoke(b, ls[i], m), m, ls, i + 1)
       ELSE emit(b, m, ls, i + 1)

\* handler(message)
invoke(b, l, m) ==
  LET b1 == [b EXCEPT !.invocations = Append(@, [listener |-> l, msg |-> m.id])]
      h == b.listeners[l].handler
  IN IF m.source # External THEN b1
     ELSE IF h = "republish" THEN publish(b1, b.listeners[l].agentId, m.topic, None)
     ELSE IF h = "respond"
          THEN publishWith(b1, b.listeners[l].agentId, OtherTopic(m.topic), None, None,
                           m.correlationId)
     ELSE IF h = "forward"
          THEN publishWith(b1, b.listeners[l].agentId, m.topic, None, None,
                           m.correlationId)
     ELSE IF h = "throws" THEN wrappedHandler(b1, l, m)
     ELSE IF h = "rejects"
          THEN [b1 EXCEPT !.rejections = @ \cup {[listener |-> l, msg |-> m.id]}]
     ELSE IF h = "suspends"
          THEN [b1 EXCEPT !.suspended = @ \cup {[listener |-> l, msg |-> m.id]}]
     ELSE b1

\* ----------------------------------------------------- DataIngestionAgent
\* a field of the raw input that may be absent from the object
Absent == [defined |-> FALSE, value |-> <<>>]
Field(v) == [defined |-> TRUE, value |-> v]

\* product_name: strings over a blank and a letter
Names == {<<>>, <<" ">>, <<"a">>, <<" ", "a">>}
Prices == {-1, 0, 5}
Lists == {<<>>, <<"x">>}

\* the payloads of RAW_DATA_RECEIVED: no input at all, or an object
NoInput == [present |-> FALSE]
RawInputs ==
  {NoInput} \cup
  [present : {TRUE},
   product_name : {Absent} \cup {Field(n) : n \in Names},
   price : {[defined |-> FALSE, value |-> 0]} \cup {[defined |-> TRUE, value |-> v] : v \in Prices},
   key_ingredients : {Absent} \cup {Field(l) : l \in Lists},
   benefits : {Absent} \cup {Field(l) : l \in Lists}]

\* String.prototype.trim
RECURSIVE trimStart(_)
trimStart(str) ==
  IF str # <<>> /\ Head(str) = " " THEN trimStart(Tail(str)) ELSE str

RECURSIVE trimEnd(_)
trimEnd(str) ==
  IF str # <<>> /\ str[Len(str)] = " " THEN trimEnd(SubSeq(str, 1, Len(str) - 1)) ELSE str

trim(str) == trimEnd(trimStart(str))

validateRawDataAnyPrice(rawData) ==
  IF ~rawData.present THEN <<"Raw data is required">>
  ELSE (IF ~rawData.product_name.defined \/ rawData.product_name.value = <<>>
           \/ trim(rawData.product_name.value) = <<>>
        THEN <<"Product name is required">> ELSE <<>>)
    \o (IF ~rawData.key_ingredients.defined \/ Len(rawData.key_ingredients.value) = 0
        THEN <<"At least one key ingredient is required">> ELSE <<>>)
    \o (IF ~rawData.benefits.defined \/ Len(rawData.benefits.value) = 0
        THEN <<"At least one benefit is required">> ELSE <<>>)

\* validateRawData: the errors it collects (valid means there are none)
validateRawData(rawData) ==
  IF ~rawData.present THEN <<"Raw data is required">>
  ELSE (IF ~rawData.product_name.defined \/ rawData.product_name.value = <<>>
           \/ trim(rawData.product_name.value) = <<>>
        THEN <<"Product name is required">> ELSE <<>>)
    \o (IF ~rawData.price.defined \/ rawData.price.value = 0 \/ rawData.price.value <= 0
        THEN <<"Valid price is required">> ELSE <<>>)
    \o (IF ~rawData.key_ingredients.defined \/ Len(rawData.key_ingredients.value) = 0
        THEN <<"At least one key ingredient is required">> ELSE <<>>)
    \o (IF ~rawData.benefits.defined \/ Len(rawData.benefits.value) = 0
        THEN <<"At least one benefit is required">> ELSE <<>>)

\* handleRawDataReceived: the topics it publishes
handleRawDataReceived(rawData) ==
  IF validateRawData(rawData) # <<>> THEN <<AGENT_ERROR>> ELSE <<"PRODUCT_MODEL_READY">>

\* the wrapped handler of the agent's RAW_DATA_RECEIVED subscription, an async
\* function: it drops the message unless the agent is running, and nothing it
\* does is thrown to the caller of publish
ingestWrappedHandler(running, rawData) ==
  [input |-> rawData, handled |-> running,
   published |-> IF running THEN handleRawDataReceived(rawData) ELSE <<>>,
   thrown |-> FALSE]

\* ------------------------------------------------------ OrchestratorAgent
KnownPages == {"faq", "product", "comparison"}
PageTypes == {"faq", "product", "other"}

PState ==
  [pipelineState |-> pipelineState, pagesOf |-> pagesOf, promises |-> promises,
   orchRunning |-> orchRunning, published |-> published, lastEvent |-> lastEvent]

PCommit(p) ==
  /\ pipelineState' = p.pipelineState
  /\ pagesOf' = p.pagesOf
  /\ promises' = p.promises
  /\ orchRunning' = p.orchRunning
  /\ published' = p.published
  /\ lastEvent' = p.lastEvent
  /\ UNCHANGED <<qvars, bvars, ivars, wvars, svars>>

\* createInitialState for run number r (0: the state made by the constructor)
createInitialState(r) ==
  [status |-> "idle", pages |-> r, expectedPages |-> {}, receivedPages |-> {}]

\* resolve / reject of the promise held in resolveCompletion / rejectCompletion:
\* settling a settled promise changes nothing
settle(p, state, value) ==
  LET r == Len(p.promises)
  IN IF r > 0 /\ p.promises[r].state = "pending"
     THEN [p EXCEPT !.promises[r] = [state |-> state, value |-> value]]
     ELSE p

createOutput(p) ==
  [pages |-> p.pipelineState.pages, pagesGenerated |-> p.pipelineState.receivedPages]

runPipelineKeepsState(p, pagesToGenerate) ==
  LET r == Len(p.promises) + 1
  IN [p EXCEPT !.promises = Append(@, [state |-> "pending", value |-> None]),
               !.pipelineState = [p.pipelineState EXCEPT
                                     !.status = "running",
                                     !.expectedPages = @ \cup pagesToGenerate],
               !.published = @ \o <<"PIPELINE_START", "RAW_DATA_RECEIVED">>]

runPipeline(p, pagesToGenerate) ==
  LET r == Len(p.promises) + 1
  IN [p EXCEPT !.promises = Append(@, [state |-> "pending", value |-> None]),
               !.pipelineState = [createInitialState(r) EXCEPT
                                     !.status = "running",
                                     !.expectedPages = pagesToGenerate],
               !.pagesOf[r] = {},
               !.published = @ \o <<"PIPELINE_START", "RAW_DATA_RECEIVED">>]

checkPipelineCompletionAnyPage(p) ==
  LET expected == p.pipelineState.expectedPages
      received == p.pipelineState.receivedPages
  IN IF (expected \cap received # {}) /\ p.pipelineState.status = "running"
     THEN LET p1 == [p EXCEPT !.pipelineState.status = "completed"]
              p2 == [p1 EXCEPT !.published = Append(@, "PIPELINE_COMPLETE")]
          IN settle(p2, "resolved", createOutput(p1))
     ELSE p

checkPipelineCompletion(p) ==
  LET expected == p.pipelineState.expectedPages
      received == p.pipelineState.receivedPages
      allReceived == \A e \in expected : e \in received
  IN IF allReceived /\ p.pipelineState.status = "running"
     THEN LET p1 == [p EXCEPT !.pipelineState.status = "completed"]
              p2 == [p1 EXCEPT !.published = Append(@, "PIPELINE_COMPLETE")]
          IN settle(p2, "resolved", createOutput(p1))
     ELSE p

handlePageAssembled(p, pageType) ==
  LET p1 == IF pageType \in KnownPages
            THEN [p EXCEPT !.pagesOf[p.pipelineState.pages] = @ \cup {pageType}]
            ELSE p
      p2 == [p1 EXCEPT !.pipelineState.receivedPages = @ \cup {pageType}]
  IN checkPipelineCompletion(p2)

handleAgentErrorIgnored(p) == p

handleAgentError(p) ==
  IF p.pipelineState.status = "running"
  THEN settle([p EXCEPT !.pipelineState.status = "failed"], "rejected", "Pipeline failed")
  ELSE p

\* ---------------------------------------------------------------- actions
\* inputs of the calls
CapabilityLists == {{"c1"}, {"c1", "c2"}}
SubmitPriorities == {NORMAL}
DependencyChoices ==
  {{}, {UnknownId}} \cup (IF Len(tasks) > 0 THEN {{Len(tasks)}} ELSE {})

QInit ==
  /\ agents = [w \in AllWorkers |-> None]
  /\ agentCaps = [w \in AllWorkers |-> {}]
  /\ capabilityIndex = [c \in Caps |-> <<>>]
  /\ registrationOrder = <<>>
  /\ tasks = <<>>
  /\ pendingQueue = <<>>
  /\ agentObj = [w \in AllWorkers |-> FALSE]
  /\ isRunning = [w \in AllWorkers |-> FALSE]
  /\ inflight = [w \in AllWorkers |-> [t \in TaskIds |-> 0]]
  /\ lifeCont = {}

BInit ==
  /\ listeners = <<>>
  /\ subscriptions = <<>>
  /\ messageHistory = <<>>
  /\ invocations = <<>>
  /\ rejections = {}
  /\ suspended = {}
  /\ resetAt = 0
  /\ messageIdCounter = 0
  /\ requests = <<>>

PInit ==
  /\ pipelineState = createInitialState(0)
  /\ pagesOf = [r \in 0..(MaxRuns + 1) |-> {}]
  /\ promises = <<>>
  /\ orchRunning = FALSE
  /\ published = <<>>
  /\ lastEvent = None

IInit ==
  /\ ingestRunning = FALSE
  /\ ingestLog = <<>>

WInit == waits = <<>>

\* no worker constructed; the page assembler's state is {} after construction
SInit ==
  /\ constructed = <<>>
  /\ started = {}
  /\ assembler = [currentProduct |-> 0, questionSet |-> 0, contentBlocks |-> 0,
                  dataAvailable |-> [product |-> FALSE, questions |-> FALSE,
                                     contentBlocks |-> FALSE]]
  /\ pageEvents = <<>>
  /\ caught = {}
  /\ runLog = <<>>

Init == QInit /\ BInit /\ PInit /\ IInit /\ WInit /\ SInit

\* registry.register(id, ...) called directly
Register == \E w \in Workers, caps \in CapabilityLists :
  /\ ~agentObj[w]
  /\ agents[w] = None
  /\ Commit(register(QState, w, caps))

Unregister == \E w \in Workers : Commit(unregister(QState, w))

\* registry.register(id, ...) for any id, registered already or not
RegisterAgain == \E w \in Workers, caps \in (SUBSET Caps) \ {{}} :
  /\ ~agentObj[w]
  /\ Commit(register(QState, w, caps))

UpdateStatus == \E w \in Workers, st \in {READY} :
  /\ ~agentObj[w]
  /\ agents[w] = INITIALIZING
  /\ Commit(updateStatus(QState, w, st))

\* new AutonomousAgent(config): registers and subscribes to TASK_ASSIGNED
NewAgent == \E w \in Workers, caps \in CapabilityLists :
  /\ ~agentObj[w]
  /\ agents[w] = None
  /\ Commit([register(QState, w, caps) EXCEPT !.agentObj[w] = TRUE])

\* start(): isRunning = true, then await onStart()
Start == \E w \in Workers :
  /\ agentObj[w] /\ ~isRunning[w]
  /\ \A c \in lifeCont : c[1] # w
  /\ Commit([QState EXCEPT !.isRunning[w] = TRUE, !.lifeCont = @ \cup {<<w, READY>>}])

\* stop(): isRunning = false, then await onStop()
Stop == \E w \in Workers :
  /\ agentObj[w] /\ isRunning[w]
  /\ \A c \in lifeCont : c[1] # w
  /\ Commit([QState EXCEPT !.isRunning[w] = FALSE, !.lifeCont = @ \cup {<<w, OFFLINE>>}])

\* the rest of start()/stop(): registry.updateStatus(id, READY / OFFLINE)
LifeContinue == \E c \in lifeCont :
  Commit(updateStatus([QState EXCEPT !.lifeCont = @ \ {c}], c[1], c[2]))

Submit == \E cap \in Caps, prio \in SubmitPriorities, maxRetries \in 1..MaxRetry,
             deps \in DependencyChoices :
  /\ Len(tasks) < MaxTasks
  /\ Commit(submit(QState, cap, prio, deps, maxRetries))

\* submit with a maxRetries option, for the specification of the retry policy
SubmitRetry == \E cap \in Caps, maxRetries \in 1..MaxRetry, deps \in {{}} :
  /\ Len(tasks) < MaxRetryTasks
  /\ Commit(submit(QState, cap, NORMAL, deps, maxRetries))

\* submit(type, capability, payload, {dependencies}): default priority and maxRetries
SubmitDefault == \E cap \in Caps, deps \in DependencyChoices :
  /\ Len(tasks) < MaxScanTasks
  /\ Commit(submit(QState, cap, NORMAL, deps, DefaultMaxRetries))

\* three workers of one capability, registered one after the other, for scans
\* that serve three tasks at once
WorkerOrder == <<"w1", "w2", "w3">>

RegisterAny == \E i \in 1..Len(WorkerOrder) :
  /\ ~agentObj[WorkerOrder[i]]
  /\ agents[WorkerOrder[i]] = None
  /\ \A j \in 1..(i - 1) : agents[WorkerOrder[j]] # None
  /\ Commit(register(QState, WorkerOrder[i], {"c1"}))

ReadyAny == \E w \in AllWorkers :
  /\ ~agentObj[w]
  /\ agents[w] = INITIALIZING
  /\ Commit(updateStatus(QState, w, READY))

\* submit(type, capability, payload, {priority})
SubmitPriority == \E prio \in {LOW, NORMAL, HIGH} :
  /\ Len(tasks) < MaxPrioTasks
  /\ Commit(submit(QState, "c1", prio, {}, DefaultMaxRetries))

\* a worker reports the outcome of a task that is assigned to it
ReportSuccess == \E t \in DOMAIN tasks :
  /\ tasks[t].status \in {ASSIGNED, IN_PROGRESS}
  /\ Commit(completeTask(QState, t))

ReportFailure == \E t \in DOMAIN tasks :
  /\ tasks[t].status \in {ASSIGNED, IN_PROGRESS}
  /\ Commit(failTask(QState, t, "err"))

ProcessQueue ==
  /\ pendingQueue # <<>>
  /\ Commit(processQueue(QState))

StartTask == \E t \in TaskIds : Commit(startTask(QState, t))

CompleteTask == \E t \in TaskIds : Commit(completeTask(QState, t))

FailTask == \E t \in TaskIds :
  /\ Known(QState, t) => tasks[t].retryCount < MaxFail
  /\ Commit(failTask(QState, t, "err"))

\* handleTaskAssignment after `await processTask`: report, then registry READY
WorkerFinish == \E w \in Workers, t \in TaskIds, ok \in BOOLEAN :
  /\ inflight[w][t] > 0
  /\ ok \/ tasks[t].retryCount < MaxFail
  /\ LET s0 == [QState EXCEPT !.inflight[w][t] = @ - 1]
         s1 == IF ok THEN completeTask(s0, t) ELSE failTask(s0, t, "thrown")
     IN Commit(updateStatus(s1, w, READY))

\* ---- MessageBus calls
Subscribe == \E a \in BusAgents, topic \in Topics, h \in Handlers :
  /\ Len(listeners) < MaxSubs
  /\ BCommit(subscribe(BState, a, topic, h))

Unsubscribe == \E a \in BusAgents, topic \in Topics :
  /\ \E i \in 1..Len(subscriptions) :
       listeners[subscriptions[i]].agentId = a /\ listeners[subscriptions[i]].topic = topic
  /\ BCommit(unsubscribe(BState, a, topic))

\* AutonomousAgent.subscribe(topic, handler) of a started agent
SubscribeFailing == \E a \in {"a1"}, topic \in Topics, h \in FailingHandlers :
  /\ Len(listeners) < MaxSubs
  /\ BCommit(subscribe(BState, a, topic, h))

\* a subscriber whose handler succeeds, on a topic or on AGENT_ERROR
SubscribeQuiet == \E a \in {"a2"}, topic \in Topics \cup {AGENT_ERROR} :
  /\ Len(listeners) < MaxSubs
  /\ BCommit(subscribe(BState, a, topic, "quiet"))

\* the wrapped handler after `await handler(message)` rejected: catch, handleError
RejectionCaught == \E r \in rejections :
  BCommit(handleError([BState EXCEPT !.rejections = @ \ {r}], r.listener, r.msg))

\* publish called from outside any handler, to subscribers whose handlers fail
PublishToFailing == \E topic \in Topics, target \in {"a1", None} :
  /\ Cardinality({k \in 1..Len(messageHistory) : messageHistory[k].source = External})
       < MaxErrPublish
  /\ BCommit(publish(BState, External, topic, target))

\* MessageBus.reset called from outside any handler
Reset ==
  /\ listeners # <<>>
  /\ BCommit(reset(BState))

\* MessageBus.subscribe with an async handler
SubscribeAsync == \E a \in BusAgents, topic \in Topics, h \in AsyncHandlers :
  /\ Len(listeners) < MaxSubs
  /\ BCommit(subscribe(BState, a, topic, h))

\* a suspended handler runs to its end
HandlerResumes == \E r \in suspended :
  BCommit([BState EXCEPT !.suspended = @ \ {r}])

\* a subscriber that answers or forwards with the correlation id it received
SubscribeCorrelating == \E topic \in Topics, h \in CorrelatingHandlers :
  /\ Len(subscriptions) < MaxCorrelating
  /\ BCommit(subscribe(BState, "a1", topic, h))

\* request called from outside any handler
Request == \E requestType \in Topics, responseType \in Topics, target \in {None} :
  /\ Len(requests) < MaxRequests
  /\ BCommit(request(BState, External, requestType, responseType, target))

\* the timer of a request fires
RequestTimeout == \E r \in 1..Len(requests) :
  /\ requests[r].timer
  /\ BCommit(requestTimeout(BState, r))

\* a message published from outside any handler, with the correlation id of a
\* request, with another one, or with none
PublishResponse == \E topic \in Topics,
                      c \in {NoCorrelation, messageIdCounter + 1}
                             \cup {requests[r].correlationId : r \in 1..Len(requests)} :
  /\ Cardinality({k \in 1..Len(messageHistory) :
                    /\ messageHistory[k].source = External
                    /\ \A r \in 1..Len(requests) :
                         requests[r].correlationId + 1 # messageHistory[k].id})
       < MaxResponses
  /\ BCommit(publishWith(BState, External, topic, None, None, c))

\* publish called from outside any handler
Publish == \E topic \in Topics, target \in {"a1", None} :
  /\ Cardinality({k \in 1..Len(messageHistory) : messageHistory[k].source = External})
       < MaxPublish
  /\ BCommit(publish(BState, External, topic, target))

\* ---- OrchestratorAgent calls and events
OrchStart ==
  /\ ~orchRunning
  /\ PCommit([PState EXCEPT !.orchRunning = TRUE, !.lastEvent = "start"])

OrchStop ==
  /\ orchRunning
  /\ PCommit([PState EXCEPT !.orchRunning = FALSE, !.lastEvent = "stop"])

RunPipeline == \E pagesToGenerate \in SUBSET PageTypes :
  /\ Len(promises) < MaxRuns
  /\ PCommit([runPipeline(PState, pagesToGenerate) EXCEPT !.lastEvent = "run"])

\* a PAGE_ASSEMBLED message is published; the wrapped handler drops it unless isRunning
PageAssembled == \E pageType \in PageTypes :
  IF orchRunning
  THEN PCommit([handlePageAssembled(PState, pageType) EXCEPT !.lastEvent = "page"])
  ELSE PCommit([PState EXCEPT !.lastEvent = "dropped"])

\* an AGENT_ERROR message is published
AgentError ==
  IF orchRunning
  THEN PCommit([handleAgentError(PState) EXCEPT !.lastEvent = "error"])
  ELSE PCommit([PState EXCEPT !.lastEvent = "dropped"])

NextQueue ==
  \/ Register \/ UpdateStatus
  \/ Submit \/ ProcessQueue \/ StartTask \/ CompleteTask \/ FailTask

NextAgents ==
  \/ NewAgent \/ Start \/ Stop \/ LifeContinue
  \/ Submit \/ ProcessQueue \/ WorkerFinish

\* ------------------------------------------------------------------ claims
Quiescent == lifeCont = {} /\ \A w \in AllWorkers, t \in TaskIds : inflight[w][t] = 0

\* the steps that consume a report in the current state, with their traces
CompletionTraces ==
  {handleTaskCompletion(QState, t, ok, "err").lastCompletion :
     t \in DOMAIN tasks, ok \in BOOLEAN}

\* the scans that can run in the current state: a direct processQueue call and
\* the scan each completion report triggers
ScanTraces ==
  {processQueue(QState).lastAssign} \cup
  {handleTaskCompletion(QState, t, ok, "err").lastAssign :
     t \in DOMAIN tasks, ok \in BOOLEAN}

\* C1: in every reachable state a task whose status is ASSIGNED has every one of
\* its dependencies present in the queue with status COMPLETED.
C1_AssignedHasCompletedDeps ==
  \A t \in DOMAIN tasks :
    tasks[t].status = ASSIGNED =>
      \A d \in tasks[t].dependencies : d \in DOMAIN tasks /\ tasks[d].status = COMPLETED

\* C2 as stated: when a successful completion is consumed, every task that is then
\* PENDING with all dependencies COMPLETED and a READY worker for its capability
\* is assigned by the scan that the completion triggers.
C2_EveryEligibleAssigned ==
  \A c \in CompletionTraces : c.kind = "completed" => c.eligible \subseteq c.assigned

\* C2 amended: the scan triggered by a successful completion leaves no task that is
\* PENDING with all dependencies COMPLETED and a READY worker for its capability;
\* an eligible task is passed over only when the READY workers for its
\* capability were taken earlier in the same scan.
C2_NoAssignableLeftAfterCompletion ==
  \A c \in CompletionTraces : c.kind = "completed" => c.leftover = {}

\* a completion of a dependency whose scan assigns a dependent task and passes
\* over another eligible task, the READY worker being taken
C2_Witness ==
  \E c \in CompletionTraces :
    /\ c.kind = "completed"
    /\ \E t \in c.assigned : c.task \in tasks[t].dependencies
    /\ c.eligible \ c.assigned # {}
    /\ c.leftover = {}

\* C3: whenever a processQueue scan sets a task's assignedTo to worker W, W was
\* READY immediately before, is BUSY immediately after, and the task is ASSIGNED.
C3_AssignReadyThenBusy ==
  \A log \in ScanTraces : \A i \in 1..Len(log) :
    LET a == log[i] IN
      /\ a.before = READY
      /\ a.after = BUSY
      /\ a.taskStatus = ASSIGNED
      /\ a.assignedTo = a.agent

\* a scan has assigned a task to a worker, which is BUSY
C3_Witness ==
  \E t \in DOMAIN tasks :
    /\ tasks[t].status = ASSIGNED
    /\ tasks[t].assignedTo # None
    /\ agents[tasks[t].assignedTo] = BUSY

\* C4: a task with maxRetries = n whose failure was reported n+1 times is FAILED
\* with retryCount = n.
C4_FailedWithRetryCountN ==
  \A t \in DOMAIN tasks :
    tasks[t].failures = tasks[t].maxRetries + 1 =>
      tasks[t].status = FAILED /\ tasks[t].retryCount = tasks[t].maxRetries

\* C5: retryCount equals the number of failure reports consumed for the task (each
\* report adds exactly one, nothing resets it), and a FAILED task has
\* retryCount >= maxRetries.
C5_RetryCountCountsFailures ==
  \A t \in DOMAIN tasks :
    /\ tasks[t].retryCount = tasks[t].failures
    /\ tasks[t].status = FAILED => tasks[t].retryCount >= tasks[t].maxRetries

\* a task that was retried once and then failed for good
C5_Witness ==
  \E t \in DOMAIN tasks :
    tasks[t].status = FAILED /\ tasks[t].maxRetries = 2 /\ tasks[t].retryCount = 2

\* C6: a task whose processTask has thrown on every attempt is, as long as a READY
\* worker with its capability exists, either being processed again or FAILED
\* with the error stored: it never waits for an external processQueue call.
C6_RetriedUntilFailed ==
  \A t \in DOMAIN tasks :
    (/\ tasks[t].failures >= 1
     /\ tasks[t].result = None
     /\ Quiescent
     /\ findReadyByCapability(QState, tasks[t].requiredCapability) # <<>>)
    => tasks[t].status = FAILED /\ tasks[t].error = "thrown"

\* C7: when the queue consumes a report for a task assigned to worker W, the queue
\* sets W back to READY, whether the task completes, is retried or fails.
C7_WorkerReleasedInAllOutcomes ==
  \A c \in CompletionTraces : c.agent # None => c.agentAfter = READY

\* the positions in the invocation log at which listener l handled message id
InvocationsOf(l, id) ==
  {i \in 1..Len(invocations) : invocations[i] = [listener |-> l, msg |-> id]}

\* C8: for a message with a target, every handler invoked is one that is subscribed
\* to the message's topic under the target's id when the message is published; for
\* a message with no target, every handler subscribed to the topic is invoked
\* exactly once.
C8_OnlySubscribedHandlersInvoked ==
  \A k \in 1..Len(messageHistory) :
    LET m == messageHistory[k] IN
      /\ m.target # None =>
           \A i \in 1..Len(invocations) :
             invocations[i].msg = m.id =>
               /\ invocations[i].listener \in m.subscribed
               /\ listeners[invocations[i].listener].agentId = m.target
      /\ m.target = None =>
           \A l \in m.subscribed : Cardinality(InvocationsOf(l, m.id)) = 1

\* C9: of two messages on one topic, the one whose publish call started first
\* (the smaller id) is handled first by every subscriber that handles both.
C9_PublishOrderObserved ==
  \A i, j \in 1..Len(invocations) :
    (invocations[i].listener = invocations[j].listener
       /\ invocations[i].msg < invocations[j].msg) => i < j

\* the PAGE_ASSEMBLED event of this step was handled by the orchestrator
PageHandled == lastEvent' = "page"

SameRun == Len(promises') = Len(promises)

CurrentPromise == promises[Len(promises)]

\* C10: a run becomes completed exactly at the PAGE_ASSEMBLED event after which
\* the received pages cover the expected ones: that step publishes
\* PIPELINE_COMPLETE and resolves the run's promise with the pages collected;
\* while an expected page is missing and no AGENT_ERROR was handled, the run
\* stays running and its promise stays pending.
C10_Step ==
  /\ (pipelineState.status = "running" /\ PageHandled
        /\ pipelineState'.expectedPages \subseteq pipelineState'.receivedPages)
     => /\ pipelineState'.status = "completed"
        /\ published' = Append(published, "PIPELINE_COMPLETE")
        /\ promises'[Len(promises')] =
             [state |-> "resolved",
              value |-> [pages |-> pipelineState'.pages,
                         pagesGenerated |-> pipelineState'.receivedPages]]
        /\ pagesOf'[pipelineState'.pages] = pipelineState'.receivedPages \cap KnownPages
  /\ (pipelineState'.status = "completed" /\ pipelineState.status # "completed")
     => /\ pipelineState.status = "running" /\ PageHandled /\ SameRun
        /\ pipelineState'.expectedPages \subseteq pipelineState'.receivedPages
  /\ (pipelineState.status = "running" /\ SameRun /\ lastEvent' # "error"
        /\ ~(pipelineState'.expectedPages \subseteq pipelineState'.receivedPages))
     => /\ pipelineState'.status = "running"
        /\ promises'[Len(promises')].state = "pending"

ErrorHandled == lastEvent' = "error"

\* C11: an AGENT_ERROR handled while the run is running makes the run failed and
\* rejects its promise in that same step; afterwards no event of that run changes
\* the failed status, and a rejected promise is never resolved.
C11_Step ==
  /\ (pipelineState.status = "running" /\ ErrorHandled)
     => /\ pipelineState'.status = "failed"
        /\ promises'[Len(promises')].state = "rejected"
  /\ (pipelineState.status = "failed" /\ SameRun)
     => /\ pipelineState'.status = "failed"
        /\ promises'[Len(promises')].state = "rejected"
  /\ \A r \in 1..Len(promises) :
       promises[r].state = "rejected" => promises'[r].state = "rejected"

C11_ErrorFailsRunForGood == [][C11_Step]_vars

\* a run that failed before its expected pages arrived, all of which arrived later
C11_Witness ==
  /\ pipelineState.status = "failed"
  /\ pipelineState.expectedPages = {"faq", "product"}
  /\ pipelineState.receivedPages = {"faq", "product"}
  /\ CurrentPromise.state = "rejected"

\* C12: a promise that is settled never changes again, and once the run is
\* completed or failed, a later PAGE_ASSEMBLED or AGENT_ERROR event of that run
\* changes neither its status, nor its received set, nor the pages delivered.
C12_Step ==
  /\ \A r \in 1..Len(promises) :
       promises[r].state # "pending" => promises'[r] = promises[r]
  /\ (pipelineState.status \in {"completed", "failed"} /\ SameRun
        /\ (PageHandled \/ ErrorHandled))
     => /\ pipelineState'.status = pipelineState.status
        /\ pipelineState'.receivedPages = pipelineState.receivedPages
        /\ pagesOf' = pagesOf

C12_SettledRunIgnoresEvents == [][C12_Step]_vars

Prio(t) == tasks[t].priority

\* the tasks a scan assigned, in the order of their assignment messages
AssignedOrder(log) == [i \in 1..Len(log) |-> log[i].task]

\* C13: the backlog is ordered by non-increasing priority; enqueue puts a task
\* behind every entry of equal or higher priority and before every entry of lower
\* priority (FIFO among equals); a scan removes entries without reordering the rest.
C13_BacklogPriorityFifo ==
  /\ \A i, j \in 1..Len(pendingQueue) :
       i < j => Prio(pendingQueue[i]) >= Prio(pendingQueue[j])
  /\ \A t \in DOMAIN tasks :
       \E k \in 1..(Len(pendingQueue) + 1) :
         /\ enqueue(QState, t).pendingQueue = InsertAt(pendingQueue, k, t)
         /\ \A i \in 1..(k - 1) : Prio(pendingQueue[i]) >= Prio(t)
         /\ \A i \in k..Len(pendingQueue) : Prio(pendingQueue[i]) < Prio(t)
  /\ LET s2 == processQueue(QState)
         gone == {s2.lastAssign[i].task : i \in 1..Len(s2.lastAssign)}
     IN s2.pendingQueue = SelectSeq(pendingQueue, LAMBDA id : id \notin gone)

\* a retried task waits behind a task of equal priority that was submitted after
\* it, and both wait behind or before entries of another priority
C13_Witness ==
  \E i, j, k \in 1..Len(pendingQueue) :
    /\ i < j
    /\ Prio(pendingQueue[i]) = Prio(pendingQueue[j])
    /\ pendingQueue[i] > pendingQueue[j]
    /\ tasks[pendingQueue[j]].failures > 0
    /\ Prio(pendingQueue[k]) # Prio(pendingQueue[i])

\* the scans that can run in the current state when reports only come for tasks
\* that are assigned: a direct processQueue call and the scan each report triggers
ReportedScanTraces ==
  {processQueue(QState).lastAssign} \cup
  {handleTaskCompletion(QState, t, ok, "err").lastAssign :
     t \in {u \in DOMAIN tasks : tasks[u].status \in {ASSIGNED, IN_PROGRESS}},
     ok \in BOOLEAN}

\* C14 as stated: a scan assigns by priority first, then by submission order.
C14_AssignedInSubmissionOrder ==
  \A log \in ReportedScanTraces : \A i, j \in 1..Len(log) :
    i < j => \/ Prio(log[i].task) > Prio(log[j].task)
             \/ Prio(log[i].task) = Prio(log[j].task) /\ log[i].task < log[j].task

\* the position of the first entry of the backlog that names task t
FirstPos(t) ==
  CHOOSE i \in 1..Len(pendingQueue) :
    pendingQueue[i] = t /\ \A j \in 1..(i - 1) : pendingQueue[j] # t

\* tasks submitted LOW, HIGH, NORMAL are pending and three capable workers are READY
C14_Witness ==
  /\ Len(tasks) = 3
  /\ Prio(1) = LOW /\ Prio(2) = HIGH /\ Prio(3) = NORMAL
  /\ \A t \in 1..3 : tasks[t].status = PENDING
  /\ \A w \in AllWorkers : agents[w] = READY /\ "c1" \in agentCaps[w]

\* C14 amended: a scan assigns in backlog order, that is by priority first, then
\* by the order of insertion into the backlog (a retried task is inserted
\* again); tasks submitted LOW, HIGH, NORMAL with three ready capable workers
\* are assigned HIGH, NORMAL, LOW.
C14_AssignedInBacklogOrder ==
  /\ \A log \in ScanTraces : \A i, j \in 1..Len(log) :
       i < j => Prio(log[i].task) >= Prio(log[j].task)
  /\ LET log == processQueue(QState).lastAssign
     IN /\ \A i, j \in 1..Len(log) :
             i < j => FirstPos(log[i].task) < FirstPos(log[j].task)
        /\ C14_Witness => AssignedOrder(log) = <<2, 3, 1>>

\* the ids a lookup returns
Ids(seq) == {seq[i] : i \in 1..Len(seq)}

\* C15: a worker that is unregistered is returned by findByCapability and
\* findReadyByCapability for no capability and getAgent(id) is undefined, from
\* the unregister call that returns true on.
C15_UnregisteredNotFound ==
  /\ \A w \in AllWorkers, c \in Caps :
       agents[w] = None =>
         /\ w \notin Ids(findByCapability(QState, c))
         /\ w \notin Ids(findReadyByCapability(QState, c))
  /\ \A w \in AllWorkers :
       agents[w] # None =>
         LET s2 == unregister(QState, w)
         IN /\ s2.agents[w] = None
            /\ \A c \in Caps : w \notin Ids(findByCapability(s2, c))
            /\ \A c \in Caps : w \notin Ids(findReadyByCapability(s2, c))

\* a worker was unregistered while the index still lists it under a capability
\* that an earlier record of it advertised
C15_Witness ==
  \E w \in AllWorkers, c \in Caps :
    agents[w] = None /\ w \in Ids(capabilityIndex[c])

\* C16: findByCapability(c) returns precisely the registered workers whose
\* current record lists capability c.
C16_IndexExact ==
  \A c \in Caps :
    Ids(findByCapability(QState, c)) =
      {w \in AllWorkers : agents[w] # None /\ c \in agentCaps[w]}

\* C17, on receiving the assignment: the worker to which a scan assigns a task
\* handles the message inside the scan; after that it is BUSY and the task is
\* IN_PROGRESS, with processTask pending.
C17_Received ==
  \A log \in ScanTraces : \A i \in 1..Len(log) :
    agentObj[log[i].agent] =>
      /\ log[i].handled
      /\ log[i].taskStatus = ASSIGNED
      /\ log[i].agentHandled = BUSY
      /\ log[i].taskHandled = IN_PROGRESS

\* C17, on finishing: the step in which the handling of task t by worker w ends
\* reports the outcome (the task is COMPLETED with its result, or one more
\* failure is counted and the task is retried or FAILED with the thrown
\* message) and leaves w READY.
C17_Finished ==
  \A w \in AllWorkers, t \in DOMAIN tasks :
    inflight'[w][t] < inflight[w][t] =>
      /\ agents'[w] = READY
      /\ \/ /\ tasks'[t].status = COMPLETED /\ tasks'[t].result = "data"
            /\ tasks'[t].failures = tasks[t].failures
         \/ /\ tasks'[t].failures = tasks[t].failures + 1
            /\ tasks'[t].status # COMPLETED
            /\ tasks'[t].status = FAILED => tasks'[t].error = "thrown"

C17_AssignmentHandledUniformly == []C17_Received /\ [][C17_Finished]_vars

\* a task failed on one attempt and completed on a later one, its worker is READY
C17_Witness ==
  /\ Quiescent
  /\ \E t \in DOMAIN tasks :
       /\ tasks[t].failures >= 1
       /\ tasks[t].status = COMPLETED /\ tasks[t].assignedTo # None
       /\ agentObj[tasks[t].assignedTo] /\ agents[tasks[t].assignedTo] = READY

\* the listeners of agent a whose failing handler was invoked for message id
FailedOn(a, id) ==
  {l \in 1..Len(listeners) :
     /\ listeners[l].agentId = a
     /\ listeners[l].handler \in FailingHandlers
     /\ InvocationsOf(l, id) # {}}

\* the AGENT_ERROR messages of agent a that name message id
ErrorsFor(a, id) ==
  {k \in 1..Len(messageHistory) :
     /\ messageHistory[k].topic = AGENT_ERROR
     /\ messageHistory[k].source = a
     /\ messageHistory[k].cause = id}

\* C18: no publish ends with an exception, whichever handlers fail; every
\* handler subscribed to the topic of a message from outside is invoked once for
\* it, also behind a handler that failed; and for each failed handler its agent
\* has published an AGENT_ERROR naming the message, or is about to (its catch
\* is pending).
C18_HandlerErrorsContained ==
  /\ \A topic \in Topics, target \in {"a1", None} :
       ~publish(BState, External, topic, target).raised
  /\ \A k \in 1..Len(messageHistory) :
       LET m == messageHistory[k] IN
         m.source = External =>
           /\ \A l \in m.subscribed :
                delivers(BState, l, m) => Cardinality(InvocationsOf(l, m.id)) = 1
           /\ \A a \in BusAgents :
                Cardinality(FailedOn(a, m.id)) =
                  Cardinality(ErrorsFor(a, m.id))
                  + Cardinality({r \in rejections :
                                   listeners[r.listener].agentId = a /\ r.msg = m.id})

\* a handler threw on a message, its agent published AGENT_ERROR, and a
\* subscriber registered behind it handled the message afterwards
C18_Witness ==
  \E k \in 1..Len(messageHistory), l1, l2 \in 1..Len(listeners) :
    LET m == messageHistory[k] IN
      /\ m.source = External
      /\ l1 < l2
      /\ listeners[l1].handler = "throws"
      /\ listeners[l1].agentId # listeners[l2].agentId
      /\ InvocationsOf(l1, m.id) # {}
      /\ ErrorsFor(listeners[l1].agentId, m.id) # {}
      /\ InvocationsOf(l2, m.id) # {}

\* C19: every mutating operation is one indivisible step; in particular, while a
\* processQueue scan runs, the status of the task it assigns and of the worker
\* it assigns it to are the ones the scan itself wrote: after the assignment
\* message was dispatched the task is still ASSIGNED and the worker's status is
\* the one the scan's updateStatus left.
C19_ScanChangesOnlyItsOwn ==
  \A log \in ScanTraces : \A i \in 1..Len(log) :
    /\ log[i].taskHandled = log[i].taskStatus
    /\ log[i].agentHandled = log[i].after

\* the messages on the response topic of request r that carry its correlation id
Matching(r) ==
  {k \in 1..Len(messageHistory) :
     /\ messageHistory[k].topic = requests[r].responseType
     /\ messageHistory[k].correlationId = requests[r].correlationId}

\* C20: a request is resolved with the first message published on its response
\* topic that carries its correlation id, also when that message is published
\* during the request's own publish; without such a message it is not resolved;
\* once resolved its listener is removed. (A request whose timer fired first is
\* rejected and stays so.)
C20_ResolvedWithFirstMatching ==
  \A r \in 1..Len(requests) :
    /\ requests[r].state = "resolved" =>
         /\ Matching(r) # {}
         /\ requests[r].response =
              messageHistory[CHOOSE k \in Matching(r) : \A j \in Matching(r) : k <= j].id
         /\ ~requests[r].listening
    /\ requests[r].state = "pending" => Matching(r) = {} /\ requests[r].listening

\* C21, the timeout: whenever the timer of a request is still set the request
\* is pending, and the timer's callback rejects it with an error naming the
\* request topic and removes its listener, leaving the subscriptions, the
\* history and the emitter's other listeners as they are.
C21_Timeout ==
  \A r \in 1..Len(requests) :
    requests[r].timer =>
      /\ requests[r].state = "pending"
      /\ LET b == requestTimeout(BState, r) IN
           /\ b.requests[r].state = "rejected"
           /\ b.requests[r].error = requests[r].requestType
           /\ removed(b, requests[r].listener)
           /\ b.subscriptions = subscriptions
           /\ b.messageHistory = messageHistory
           /\ b.listeners = listeners
           /\ \A q \in 1..Len(requests) : q # r => b.requests[q] = requests[q]

\* C21, afterwards: no step changes a rejected request, whatever is published.
C21_RejectedStays ==
  \A r \in 1..Len(requests) :
    requests[r].state = "rejected" => requests'[r] = requests[r]

\* C21: a request whose timeout fires before a matching response is rejected
\* with an error naming the request topic and its listener is removed, so a
\* matching response published later has no effect; the timeout changes no
\* subscription, no history entry and no registry or queue state.
C21_TimeoutRejectsForGood ==
  /\ []C21_Timeout
  /\ [][C21_RejectedStays]_vars
  /\ [][(\E r \in 1..Len(requests) : requests[r].timer /\ requests'[r].state = "rejected")
          => UNCHANGED <<qvars, pvars, ivars, wvars, svars, subscriptions, messageHistory>>]_vars

\* a request was rejected by its timeout and a response with its correlation id
\* was published on its response topic afterwards
C21_Witness ==
  \E r \in 1..Len(requests) :
    /\ requests[r].state = "rejected"
    /\ requests[r].error = requests[r].requestType
    /\ requests[r].response = NoCorrelation
    /\ Matching(r) # {}

\* C22: for one published message, the handlers subscribed to its topic are
\* invoked in the order in which they were subscribed (listeners are numbered in
\* the order of the subscribe calls), also when a handler publishes a message of
\* its own in between.
C22_InvokedInSubscriptionOrder ==
  \A k \in 1..Len(messageHistory) :
    LET m == messageHistory[k] IN
      \A i, j \in 1..Len(invocations) :
        (/\ invocations[i].msg = m.id /\ invocations[j].msg = m.id
         /\ invocations[i].listener \in m.subscribed
         /\ invocations[j].listener \in m.subscribed
         /\ invocations[i].listener < invocations[j].listener) => i < j

\* two subscribers handled one message from outside, and the first of them
\* published a message of its own while it handled it
C22_Witness ==
  \E k \in 1..Len(messageHistory), l1, l2 \in 1..Len(listeners) :
    LET m == messageHistory[k] IN
      /\ m.source = External
      /\ l1 < l2 /\ {l1, l2} \subseteq m.subscribed
      /\ listeners[l1].handler = "republish"
      /\ InvocationsOf(l1, m.id) # {} /\ InvocationsOf(l2, m.id) # {}

\* C23: when a publish has returned, the handler of every subscriber of the
\* message's topic that the message is addressed to has been invoked, whether or
\* not handlers invoked before it are still suspended.
C23_EveryEligibleHandlerStarted ==
  \A k \in 1..Len(messageHistory) :
    LET m == messageHistory[k] IN
      \A l \in m.subscribed :
        delivers(BState, l, m) => InvocationsOf(l, m.id) # {}

\* the handler of an earlier subscriber is still suspended on a message that a
\* later subscriber has been given
C23_Witness ==
  \E r \in suspended, l2 \in 1..Len(listeners) :
    /\ r.listener < l2
    /\ listeners[l2].topic = listeners[r.listener].topic
    /\ InvocationsOf(l2, r.msg) # {}

\* C24: a step takes a task out of PENDING only when all its dependencies are
\* COMPLETED at that moment: for a report consumed for the task (which is the
\* first thing its step does) in the state before the step, for an assignment
\* by a scan in the state the scan runs in, whose COMPLETED tasks are those of
\* the state after the step.
C24_Step ==
  \A t \in DOMAIN tasks :
    /\ (tasks[t].status = PENDING /\ tasks'[t].status \in {COMPLETED, FAILED}) =>
         \A d \in tasks[t].dependencies : d \in DOMAIN tasks /\ tasks[d].status = COMPLETED
    /\ (tasks[t].status = PENDING /\ tasks'[t].status \in {ASSIGNED, IN_PROGRESS}) =>
         \A d \in tasks[t].dependencies : d \in DOMAIN tasks /\ tasks'[d].status = COMPLETED

C24_LeavesPendingOnlyWithDepsCompleted == [][C24_Step]_vars

\* C25: whatever earlier runs left behind, runPipeline(input, pages) leaves the
\* per-run state reset (status running, nothing received, a new and empty pages
\* object, the expected pages exactly the requested set) and has published
\* PIPELINE_START and then RAW_DATA_RECEIVED, in that order and nothing else.
C25_RunStartsFresh ==
  \A pagesToGenerate \in SUBSET PageTypes :
    LET p == runPipeline(PState, pagesToGenerate)
        r == Len(promises) + 1
    IN /\ p.pipelineState.status = "running"
       /\ p.pipelineState.receivedPages = {}
       /\ p.pipelineState.expectedPages = pagesToGenerate
       /\ p.pipelineState.pages = r /\ p.pagesOf[r] = {}
       /\ p.published = published \o <<"PIPELINE_START", "RAW_DATA_RECEIVED">>
       /\ p.promises[r].state = "pending"

\* a second run has just been started after the first one had received pages
C25_Witness ==
  /\ lastEvent = "run" /\ Len(promises) = 2
  /\ pagesOf[1] # {}
  /\ pipelineState.status = "running" /\ pipelineState.receivedPages = {}
  /\ pipelineState.expectedPages # {}

\* the raw input fails validation in one of the ways the claim lists
FailsValidation(rawData) ==
  \/ ~rawData.present
  \/ /\ rawData.present
     /\ \/ ~rawData.product_name.defined \/ rawData.product_name.value = <<>>
        \/ ~rawData.price.defined \/ rawData.price.value <= 0
        \/ ~rawData.key_ingredients.defined \/ rawData.key_ingredients.value = <<>>
        \/ ~rawData.benefits.defined \/ rawData.benefits.value = <<>>

\* C26: for raw input that fails validation (no input, empty name, missing or
\* non-positive price, no ingredients or no benefits), the running data
\* normalizer publishes AGENT_ERROR and no PRODUCT_MODEL_READY, and nothing is
\* thrown to the publisher of the input.
C26_InvalidInputReportedNotThrown ==
  \A i \in 1..Len(ingestLog) :
    (ingestLog[i].handled /\ FailsValidation(ingestLog[i].input)) =>
      /\ ingestLog[i].published = <<AGENT_ERROR>>
      /\ ~ingestLog[i].thrown

\* the running normalizer was given an input whose only fault is its price
C26_Witness ==
  \E i \in 1..Len(ingestLog) :
    LET rawData == ingestLog[i].input IN
      /\ ingestLog[i].handled /\ rawData.present
      /\ rawData.product_name = Field(<<" ", "a">>)
      /\ rawData.price = [defined |-> TRUE, value |-> -1]
      /\ rawData.key_ingredients = Field(<<"x">>) /\ rawData.benefits = Field(<<"x">>)
      /\ ingestLog[i].published = <<AGENT_ERROR>>

\* the messages of history h that were published from outside any handler
FromOutside(h) == {k \in 1..Len(h) : h[k].source = External}

\* C27, one publish call: it raises nothing, whether or not the topic has
\* subscribers; it keeps the history it found and appends its own message to it
\* first; what follows are the messages its handlers published, and its own
\* message is the only one from outside.
C27_Publish ==
  \A topic \in Topics, target \in {"a1", None} :
    LET b == publish(BState, External, topic, target)
        n == Len(messageHistory)
    IN /\ ~b.raised
       /\ Len(b.messageHistory) > n
       /\ SubSeq(b.messageHistory, 1, n) = messageHistory
       /\ b.messageHistory[n + 1].id = messageIdCounter + 1
       /\ b.messageHistory[n + 1].topic = topic
       /\ b.messageHistory[n + 1].source = External
       /\ Cardinality(FromOutside(b.messageHistory)) =
            Cardinality(FromOutside(messageHistory)) + 1

\* C27, the order: the history lists the messages in the order of the publish
\* calls (ids are given out in that order), and the AGENT_ERROR that a wrapped
\* handler published about a message comes after that message.
C27_Order ==
  /\ \A j, k \in 1..Len(messageHistory) :
       j < k => messageHistory[j].id < messageHistory[k].id
  /\ \A k \in 1..Len(messageHistory) :
       messageHistory[k].topic = AGENT_ERROR =>
         \E j \in 1..(k - 1) : messageHistory[j].id = messageHistory[k].cause

\* C27, every step: what is in the history stays there, in place and unchanged.
C27_Step ==
  /\ Len(messageHistory') >= Len(messageHistory)
  /\ SubSeq(messageHistory', 1, Len(messageHistory)) = messageHistory

\* C27: every publish appends exactly one message to the history before any
\* handler is invoked, also for a topic without subscribers and without raising
\* an error; the history is the sequence of published messages in publish-call
\* order and no entry is ever removed, reordered or replaced.
C27_HistoryAppendOnly == []C27_Publish /\ []C27_Order /\ [][C27_Step]_vars

\* a handler published a message about the message it was handling, on a topic
\* that had no subscriber
C27_Witness ==
  \E k \in 1..Len(messageHistory) :
    /\ messageHistory[k].topic = AGENT_ERROR
    /\ messageHistory[k].subscribed = {}
    /\ \A i \in 1..Len(invocations) : invocations[i].msg # messageHistory[k].id

\* C28: updateStatus(id, READY) for a registered id publishes exactly one
\* AGENT_READY message, without a target and carrying that id (also when the
\* worker is READY already); updateStatus to another status, or for an id that
\* is not registered, publishes nothing.
C28_ReadyAnnouncedOnce ==
  \A id \in AllWorkers, status \in AgentStatus :
    updateStatus(QState, id, status).announced =
      IF agents[id] # None /\ status = READY
      THEN <<[agentId |-> id, target |-> None]>>
      ELSE <<>>

\* updateStatus(READY) has made one worker READY while another id, registered
\* before, is no longer registered
C28_Witness ==
  \E w1, w2 \in AllWorkers :
    /\ agents[w1] = READY
    /\ agents[w2] = None /\ \E c \in Caps : w2 \in Ids(capabilityIndex[c])

\* C29: a reset leaves the history empty and no listener on any topic, and since
\* the last reset no handler that was subscribed before it has been invoked,
\* whatever was published.
C29_ResetSilencesOldHandlers ==
  /\ reset(BState).messageHistory = <<>>
  /\ \A topic \in Topics : listenersOn(reset(BState), topic) = <<>>
  /\ \A i \in 1..Len(invocations) : invocations[i].listener > resetAt

\* after a reset a message was published on a topic that a handler subscribed
\* before the reset listened to, and a handler subscribed after it was invoked
C29_Witness ==
  \E k \in 1..Len(messageHistory), l1, l2 \in 1..Len(listeners) :
    /\ l1 <= resetAt /\ resetAt < l2
    /\ listeners[l1].topic = messageHistory[k].topic
    /\ delivers(BState, l1, messageHistory[k])
    /\ InvocationsOf(l2, messageHistory[k].id) # {}

\* the wait record i is new in this step or its check ran in this step
Checked(i) ==
  /\ i \in 1..Len(waits')
  /\ i > Len(waits) \/ waits'[i] # waits[i]

\* elapsed before the check of this step
ElapsedBefore(i) == IF i > Len(waits) THEN 0 ELSE waits[i].elapsed

\* C30 but for the value a FAILED task is rejected with: a check of waitForTask,
\* the one inside the call included, rejects for an unknown id, resolves with
\* the stored result of a COMPLETED task, rejects for a FAILED one, rejects with
\* a timeout when the polling budget is used up, and goes on polling otherwise;
\* a settled wait never changes.
WaitStep ==
  \A i \in 1..Len(waits') :
    /\ (i <= Len(waits) /\ waits[i].state # "polling") => waits'[i] = waits[i]
    /\ Checked(i) =>
         LET w == waits'[i]
             t == w.taskId
         IN IF t \notin DOMAIN tasks
            THEN w.state = "rejected" /\ w.value = "not found"
            ELSE IF tasks[t].status = COMPLETED
            THEN w.state = "resolved" /\ w.value = tasks[t].result
            ELSE IF tasks[t].status = FAILED
            THEN w.state = "rejected"
            ELSE IF ElapsedBefore(i) + CheckInterval >= w.timeoutMs
            THEN w.state = "rejected" /\ w.value = "timeout"
            ELSE w.state = "polling" /\ w.elapsed = ElapsedBefore(i) + CheckInterval

\* the waits that a check of this step rejected because their task is FAILED
RejectedForFailure ==
  {i \in 1..Len(waits') :
     /\ Checked(i) /\ waits'[i].taskId \in DOMAIN tasks
     /\ tasks[waits'[i].taskId].status = FAILED}

\* C30: waitForTask(id) rejects at once for an unknown id, resolves with the
\* stored result once the task is COMPLETED, rejects with the task's error once
\* it is FAILED, keeps polling while it is PENDING, ASSIGNED or IN_PROGRESS
\* (also after a retry), and rejects with a timeout error once the polling
\* budget is used up.
C30_WaitRejectsWithTaskError ==
  [][/\ WaitStep
     /\ \A i \in RejectedForFailure :
          waits'[i].value = tasks[waits'[i].taskId].error]_vars

\* C30 as the code has it: for a FAILED task whose error message is empty the
\* rejection carries the text 'Task failed', otherwise the task's error.
C30_WaitFollowsTask ==
  [][/\ WaitStep
     /\ \A i \in RejectedForFailure :
          waits'[i].value = IF tasks[waits'[i].taskId].error = ""
                            THEN "Task failed"
                            ELSE tasks[waits'[i].taskId].error]_vars

\* a wait went on polling over a failed attempt and its retry and was resolved
\* with the result
C30_Witness ==
  \E i \in 1..Len(waits) :
    /\ waits[i].state = "resolved" /\ waits[i].value = "data"
    /\ waits[i].elapsed >= 2 * CheckInterval
    /\ tasks[waits[i].taskId].failures >= 1

\* the tasks that worker w holds: assigned to it and ASSIGNED or IN_PROGRESS
HeldBy(w) ==
  {t \in DOMAIN tasks :
     tasks[t].assignedTo = w /\ tasks[t].status \in {ASSIGNED, IN_PROGRESS}}

\* C31: under every interleaving of queue assignment, completion/failure
\* reporting and the workers' own status updates, each worker has at most one
\* task in status ASSIGNED or IN_PROGRESS assigned to it, and a worker whose
\* registry status is READY has none.
C31_OneTaskPerWorker ==
  \A w \in AllWorkers :
    /\ Cardinality(HeldBy(w)) <= 1
    /\ agents[w] = READY => HeldBy(w) = {}

\* what C32 says a call must not change in the record of a settled task
Outcome(task) ==
  [status |-> task.status, result |-> task.result, error |-> task.error,
   retryCount |-> task.retryCount]

\* C32: COMPLETED and FAILED are absorbing: once a task is COMPLETED or FAILED, no
\* later completeTask, failTask or startTask call for it (a duplicate or late
\* report) changes its status, result, error or retryCount.
C32_SettledTaskAbsorbing ==
  \A t \in DOMAIN tasks :
    tasks[t].status \in {COMPLETED, FAILED} =>
      /\ Outcome(startTask(QState, t).tasks[t]) = Outcome(tasks[t])
      /\ Outcome(completeTask(QState, t).tasks[t]) = Outcome(tasks[t])
      /\ Outcome(failTask(QState, t, "err").tasks[t]) = Outcome(tasks[t])

\* ------------------------------------------------- the pipeline's workers
DataIngestionAgent == "data-ingestion-agent"
QuestionGenerationAgent == "question-generation-agent"
ContentLogicAgent == "content-logic-agent"
TemplateAgent == "template-agent"
PageAssemblyAgent == "page-assembly-agent"

\* the workers built on AutonomousAgent; the coordinator's isRunning is orchRunning
StartableWorkers ==
  {DataIngestionAgent, QuestionGenerationAgent, ContentLogicAgent, TemplateAgent,
   PageAssemblyAgent}

\* the subscribers of PRODUCT_MODEL_READY whose handlers publish
ReactingWorkers == {QuestionGenerationAgent, ContentLogicAgent, PageAssemblyAgent}

ConstructionOrders ==
  {o \in [1..3 -> ReactingWorkers] : \A i, j \in 1..3 : o[i] = o[j] => i = j}

\* a raw product record that passes validateRawData
ValidRaw ==
  [present |-> TRUE, product_name |-> Field(<<"a">>),
   price |-> [defined |-> TRUE, value |-> 5],
   key_ingredients |-> Field(<<"x">>), benefits |-> Field(<<"x">>)]

\* the rawData arguments of runPipeline: the validated fields, and whether
\* how_to_use is there (validateRawData does not look at it)
PipelineInputs ==
  {[raw |-> ValidRaw, how_to_use |-> TRUE],
   [raw |-> ValidRaw, how_to_use |-> FALSE],
   [raw |-> [ValidRaw EXCEPT !.price.value = 0], how_to_use |-> TRUE],
   [raw |-> NoInput, how_to_use |-> TRUE]}

\* the pagesToGenerate arguments of runPipeline
PageRequests == {{}, {"faq"}, KnownPages}

\* normalizeProduct throws: normalizeUsage calls howToUse.toLowerCase()
normalizeProductThrows(input) == ~input.how_to_use

\* the coordinator and the workers as one value, so that the handlers compose
SState ==
  [p |-> PState, constructed |-> constructed, started |-> started,
   assembler |-> assembler, pageEvents |-> pageEvents, caught |-> caught,
   runLog |-> runLog]

SCommit(y) ==
  /\ pipelineState' = y.p.pipelineState
  /\ pagesOf' = y.p.pagesOf
  /\ promises' = y.p.promises
  /\ orchRunning' = y.p.orchRunning
  /\ published' = y.p.published
  /\ lastEvent' = y.p.lastEvent
  /\ constructed' = y.constructed
  /\ started' = y.started
  /\ assembler' = y.assembler
  /\ pageEvents' = y.pageEvents
  /\ caught' = y.caught
  /\ runLog' = y.runLog
  /\ UNCHANGED <<qvars, bvars, ivars, wvars>>

\* the coordinator's wrapped handler for PAGE_ASSEMBLED; from: the runs whose
\* input the data of the page derive from
coordinatorPageAssembled(y, pageType, from) ==
  IF ~y.p.orchRunning THEN y
  ELSE [y EXCEPT !.p = handlePageAssembled(y.p, pageType),
                 !.pageEvents = Append(@, [run |-> y.p.pipelineState.pages,
                                           status |-> y.p.pipelineState.status,
                                           pageType |-> pageType, from |-> from])]

\* the coordinator's wrapped handler for AGENT_ERROR
coordinatorAgentError(y) ==
  IF ~y.p.orchRunning THEN y ELSE [y EXCEPT !.p = handleAgentError(y.p)]

\* PageAssemblyAgent.checkAndAssemble: with all three flags set it assembles the
\* three pages from the data it holds and publishes them
checkAndAssemble(y) ==
  LET a == y.assembler
  IN IF ~a.dataAvailable.product \/ ~a.dataAvailable.questions
        \/ ~a.dataAvailable.contentBlocks THEN y
     ELSE IF a.currentProduct = 0 THEN y
     ELSE LET y1 == coordinatorPageAssembled(y, "faq", {a.currentProduct, a.questionSet})
              y2 == coordinatorPageAssembled(y1, "product",
                                             {a.currentProduct, a.contentBlocks})
          IN coordinatorPageAssembled(y2, "comparison",
                                      {a.currentProduct, a.contentBlocks})

\* the page assembler's handlers: store the data, set its flag, checkAndAssemble
assemblerProductModelReady(y, r) ==
  IF PageAssemblyAgent \notin y.started THEN y
  ELSE checkAndAssemble([y EXCEPT !.assembler.currentProduct = r,
                                  !.assembler.dataAvailable.product = TRUE])

assemblerQuestionsGenerated(y, r) ==
  IF PageAssemblyAgent \notin y.started THEN y
  ELSE checkAndAssemble([y EXCEPT !.assembler.questionSet = r,
                                  !.assembler.dataAvailable.questions = TRUE])

assemblerContentBlocksReady(y, r) ==
  IF PageAssemblyAgent \notin y.started THEN y
  ELSE checkAndAssemble([y EXCEPT !.assembler.contentBlocks = r,
                                  !.assembler.dataAvailable.contentBlocks = TRUE])

\* QuestionGenerationAgent.handleProductModelReady publishes QUESTIONS_GENERATED,
\* ContentLogicAgent.handleProductModelReady publishes CONTENT_BLOCKS_READY; of
\* their subscribers only the page assembler reacts
generatorProductModelReady(y, w, r) ==
  IF w \notin y.started THEN y
  ELSE IF w = QuestionGenerationAgent THEN assemblerQuestionsGenerated(y, r)
  ELSE assemblerContentBlocksReady(y, r)

\* the dispatch of PRODUCT_MODEL_READY, to each subscriber in subscription order
RECURSIVE productModelReady(_, _, _)
productModelReady(y, r, i) ==
  IF i > Len(y.constructed) THEN y
  ELSE LET w == y.constructed[i]
           y1 == IF w = PageAssemblyAgent THEN assemblerProductModelReady(y, r)
                 ELSE generatorProductModelReady(y, w, r)
       IN productModelReady(y1, r, i + 1)

\* the data normalizer's wrapped handler for RAW_DATA_RECEIVED
normalizerRawDataReceived(y, input, r) ==
  IF DataIngestionAgent \notin y.started THEN y
  ELSE IF validateRawData(input.raw) # <<>> THEN coordinatorAgentError(y)
  ELSE IF normalizeProductThrows(input) THEN [y EXCEPT !.caught = @ \cup {r}]
  ELSE productModelReady(y, r, 1)

\* runPipeline with everything that its two publish calls dispatch
runPipelineDispatched(y, input, pagesToGenerate) ==
  LET p1 == runPipeline(y.p, pagesToGenerate)
      r == Len(p1.promises)
      y1 == [y EXCEPT !.p = p1,
                      !.runLog = Append(@,
                         [input |-> input,
                          allStarted |-> y.p.orchRunning /\ y.started = StartableWorkers])]
  IN normalizerRawDataReceived(y1, input, r)

\* the six workers are constructed, in some order
ConstructWorkers == \E o \in ConstructionOrders :
  /\ constructed = <<>>
  /\ SCommit([SState EXCEPT !.constructed = o])

\* start() of a worker; the page assembler's onStart clears its flags
WorkerStart == \E w \in StartableWorkers :
  /\ constructed # <<>> /\ w \notin started
  /\ SCommit([SState EXCEPT
       !.started = @ \cup {w},
       !.assembler.dataAvailable =
          IF w = PageAssemblyAgent
          THEN [product |-> FALSE, questions |-> FALSE, contentBlocks |-> FALSE]
          ELSE @])

WorkerStop == \E w \in started : SCommit([SState EXCEPT !.started = @ \ {w}])

\* runPipeline(rawData, pagesToGenerate) called on the coordinator
RunPipelineCall == \E input \in PipelineInputs, pagesToGenerate \in PageRequests :
  /\ constructed # <<>>
  /\ Len(promises) < MaxRuns
  /\ SCommit([runPipelineDispatched(SState, input, pagesToGenerate) EXCEPT
                !.p.lastEvent = "run"])

\* the catch of the data normalizer's wrapped handler: handleError publishes AGENT_ERROR
NormalizerCatch == \E r \in caught :
  SCommit(coordinatorAgentError([SState EXCEPT !.caught = @ \ {r}]))

NextSystem ==
  \/ ConstructWorkers \/ WorkerStart \/ WorkerStop \/ OrchStart \/ OrchStop
  \/ RunPipelineCall \/ NormalizerCatch

\* consecutive pipeline runs on one set of workers
SpecSystem == Init /\ [][NextSystem]_vars

\* C33: across consecutive pipeline runs on the same set of workers, every page
\* counted toward and delivered by a run was assembled from the product, questions
\* and content blocks derived from that run's own input; data a worker retained
\* from an earlier run never contributes to a later run's outputs.
C33_PagesFromOwnRun ==
  \A k \in 1..Len(pageEvents) : pageEvents[k].from = {pageEvents[k].run}

\* C34: after a worker's stop() has set its status to OFFLINE, its status stays
\* OFFLINE (so that processQueue never selects it) until start() is called again,
\* even when a task it was processing at the time of the stop completes or
\* fails afterwards.  start() sets isRunning: a step that leaves isRunning false
\* leaves the OFFLINE status.
C34_Step ==
  \A w \in AllWorkers :
    (agentObj[w] /\ agents[w] = OFFLINE /\ ~isRunning'[w]) => agents'[w] = OFFLINE

C34_StoppedStaysOffline == [][C34_Step]_vars

\* C35: in every reachable state the pending backlog contains exactly the ids of
\* the tasks whose status is PENDING, each exactly once (no duplicates, no id of
\* a task in another status), after any sequence of submit, processQueue,
\* completeTask and failTask.
C35_BacklogIsThePendingTasks ==
  /\ \A i, j \in 1..Len(pendingQueue) : pendingQueue[i] = pendingQueue[j] => i = j
  /\ {pendingQueue[i] : i \in 1..Len(pendingQueue)} =
       {t \in DOMAIN tasks : tasks[t].status = PENDING}

\* listener l was subscribed by agent a to topic
SubscribedBy(l, a, topic) == listeners[l].agentId = a /\ listeners[l].topic = topic

\* C36: after unsubscribe(workerId, topic), no handler that workerId had
\* subscribed to that topic is invoked by a later publish on the topic, and
\* getSubscribers(topic) no longer lists workerId; subscriptions of other workers
\* and of workerId on other topics are unaffected.
C36_UnsubscribedHandlerSilent ==
  \A a \in BusAgents, topic \in Topics :
    LET b2 == unsubscribe(BState, a, topic)
        subs == subscribersOf(b2, topic)
    IN /\ \A i \in 1..Len(subs) : listeners[subs[i]].agentId # a
       /\ \A i \in 1..Len(subscriptions) :
            ~SubscribedBy(subscriptions[i], a, topic) =>
              \E j \in 1..Len(b2.subscriptions) : b2.subscriptions[j] = subscriptions[i]
       /\ \A target \in {"a1", None} :
            LET b3 == publish(b2, External, topic, target)
            IN \A i \in (Len(b2.invocations) + 1)..Len(b3.invocations) :
                 ~SubscribedBy(b3.invocations[i].listener, a, topic)

NextSettle ==
  \/ ConstructWorkers \/ WorkerStart \/ OrchStart
  \/ RunPipelineCall \/ NormalizerCatch

\* pipeline runs on workers that stay started; the catch of a rejected await is
\* a microtask, which the event loop always runs
SpecSettle == Init /\ [][NextSettle]_vars /\ WF_vars(NormalizerCatch)

\* the input of run r passes validateRawData
PassesValidation(r) == validateRawData(runLog[r].input.raw) = <<>>

\* C37, the outcome: the promise of a runPipeline call made with all six workers
\* started is resolved only for input that passes validation and rejected only
\* for input that fails it.
C37_Outcome ==
  \A r \in 1..Len(promises) :
    runLog[r].allStarted =>
      /\ promises[r].state = "resolved" => PassesValidation(r)
      /\ promises[r].state = "rejected" => ~PassesValidation(r)

\* C37, termination: the promise of every runPipeline call made with all six
\* workers started eventually settles.
C37_Settles ==
  \A r \in 1..MaxRuns :
    (r <= Len(promises) /\ runLog[r].allStarted)
      ~> (r <= Len(promises) /\ promises[r].state # "pending")

\* C37: if all six workers have been started and the expected outputs are a
\* subset of {faq, product, comparison}, the promise of every runPipeline call
\* eventually settles: it resolves for input that passes validation and rejects
\* for input that fails it.
C37_PipelinePromiseSettles == []C37_Outcome /\ C37_Settles

\* submit(type, capability, payload, {maxRetries}) of a task without dependencies
SubmitPlain == \E cap \in Caps, maxRetries \in 1..MaxRetry :
  /\ Len(tasks) < MaxTasks
  /\ Commit(submit(QState, cap, NORMAL, {}, maxRetries))

NextAssign ==
  \/ RegisterAgain \/ Unregister \/ UpdateStatus
  \/ SubmitPlain \/ ProcessQueue \/ ReportSuccess \/ ReportFailure

\* assignment among workers that are registered, registered again and unregistered
SpecAssign == Init /\ [][NextAssign]_vars

\* the states in which a scan starts: a direct processQueue call, or a report
\* for an assigned task consumed and its worker released
ScanStarts ==
  {QState} \cup
  {consumeReport(QState, t, ok, "err") :
     t \in {u \in DOMAIN tasks : tasks[u].status \in {ASSIGNED, IN_PROGRESS}},
     ok \in BOOLEAN}

\* a comes before b in the sequence order
ComesBefore(order, a, b) ==
  \E i, j \in 1..Len(order) : i < j /\ order[i] = a /\ order[j] = b

\* the READY workers indexed under capability c in s that are not in taken
ReadyIndexed(s, c, taken) ==
  {w \in Ids(s.capabilityIndex[c]) : s.agents[w] = READY /\ w \notin taken}

\* every assignment of a scan started in s goes to the READY worker indexed
\* under the task's capability that comes first, in the order of the
\* capability's index (byIndex) or in the order of the current registrations,
\* the workers taken earlier in the scan being BUSY; and a PENDING task of the
\* backlog for whose capability no READY worker is indexed stays PENDING in
\* the backlog
ScanPicksFirst(s, byIndex) ==
  LET s2 == processQueue(s)
      log == s2.lastAssign
  IN /\ \A i \in 1..Len(log) :
          LET c == s.tasks[log[i].task].requiredCapability
              candidates == ReadyIndexed(s, c, {log[j].agent : j \in 1..(i - 1)})
              order == IF byIndex THEN s.capabilityIndex[c] ELSE s.registrationOrder
          IN /\ log[i].agent \in candidates
             /\ \A w \in candidates : ~ComesBefore(order, w, log[i].agent)
     /\ \A k \in 1..Len(s.pendingQueue) :
          LET t == s.pendingQueue[k]
          IN (s.tasks[t].status = PENDING
                /\ ReadyIndexed(s, s.tasks[t].requiredCapability, {}) = {})
             => /\ s2.tasks[t].status = PENDING
                /\ \E m \in 1..Len(s2.pendingQueue) : s2.pendingQueue[m] = t

\* C38: in a processQueue scan an eligible task is assigned to the first READY
\* worker, in registration order, among the workers indexed under its required
\* capability; the choice is deterministic and a task for which no such worker
\* exists stays PENDING in the backlog for the next scan.
C38_FirstInRegistrationOrder ==
  \A s \in ScanStarts : ScanPicksFirst(s, FALSE)

\* C38 amended: in a processQueue scan an eligible task is assigned to the first
\* READY worker among the workers indexed under its required capability, in the
\* order in which their ids were added to that capability's index (which is the
\* registration order as long as no registered id is registered again); a task
\* for which no such worker exists stays PENDING in the backlog.
C38_FirstInIndexOrder ==
  \A s \in ScanStarts : ScanPicksFirst(s, TRUE)

\* two READY workers indexed under the capability of a PENDING task, the one
\* registered first being the second in the index, and a scan that assigns it
C38_Witness ==
  \E t \in DOMAIN tasks, w1, w2 \in AllWorkers :
    LET c == tasks[t].requiredCapability IN
      /\ tasks[t].status = PENDING
      /\ {w1, w2} \subseteq ReadyIndexed(QState, c, {})
      /\ ComesBefore(registrationOrder, w1, w2)
      /\ ComesBefore(capabilityIndex[c], w2, w1)
      /\ \E i \in 1..Len(processQueue(QState).lastAssign) :
           processQueue(QState).lastAssign[i].task = t

\* registry.heartbeat(id) for any id
Heartbeat == \E w \in AllWorkers : Commit(heartbeat(QState, w))

\* registry.updateStatus(id, status) for any id, registered or not
UpdateStatusAny == \E w \in Workers, st \in {READY} :
  /\ ~agentObj[w]
  /\ Commit(updateStatus(QState, w, st))

\* submit(type, capability, payload, {maxRetries: 1})
SubmitNoRetry == \E cap \in Caps :
  /\ Len(tasks) < MaxTasks
  /\ Commit(submit(QState, cap, NORMAL, {}, 1))

NextCalls ==
  \/ Register \/ Unregister \/ UpdateStatusAny \/ Heartbeat
  \/ SubmitNoRetry \/ ProcessQueue \/ StartTask \/ CompleteTask \/ FailTask

\* the registry's and the queue's operations called with any id, known or not
SpecCalls == Init /\ [][NextCalls]_vars

\* the task ids that name no task record
UnknownTasks == {UnknownId} \cup (TaskIds \ DOMAIN tasks)

\* the worker ids that name no worker record
UnregisteredWorkers == {w \in AllWorkers : agents[w] = None}

\* C39: operations naming an unknown id are no-ops: startTask, completeTask and
\* failTask with an unknown task id, and updateStatus, heartbeat and unregister
\* with an unregistered worker id, leave every task record, the backlog and every
\* worker record unchanged and publish no message (unregister returns false);
\* startTask on a task whose status is not ASSIGNED likewise changes nothing.
C39_UnknownIdIsNoOp ==
  /\ \A t \in UnknownTasks :
       /\ startTask(QState, t) = QState
       /\ completeTask(QState, t) = QState
       /\ failTask(QState, t, "err") = QState
  /\ \A w \in UnregisteredWorkers :
       /\ \A st \in AgentStatus : updateStatus(QState, w, st) = QState
       /\ heartbeat(QState, w) = QState
       /\ unregister(QState, w) = QState
       /\ ~unregisterReturns(QState, w)
  /\ \A t \in DOMAIN tasks :
       tasks[t].status # ASSIGNED => startTask(QState, t) = QState

\* task records in a status other than ASSIGNED beside an ASSIGNED one, a
\* registered worker beside an unregistered one, and a backlog that is not empty
C39_Witness ==
  /\ UnregisteredWorkers # {}
  /\ \E w \in AllWorkers : agents[w] = BUSY /\ heartbeat(QState, w) # QState
  /\ \E t \in DOMAIN tasks : tasks[t].status = ASSIGNED /\ startTask(QState, t) # QState
  /\ \E t \in DOMAIN tasks : tasks[t].status = PENDING
  /\ pendingQueue # <<>>

\* ---------------------------------------------------------- specifications
NextScan ==
  \/ Register \/ UpdateStatus
  \/ SubmitDefault \/ ProcessQueue \/ CompleteTask

\* dependency gating and assignment: tasks are submitted, assigned and completed
SpecScan == Init /\ [][NextScan]_vars

NextBus == Subscribe \/ Unsubscribe \/ Publish

\* the message bus: subscribe, unsubscribe, and publish with its nested dispatch
SpecBus == Init /\ [][NextBus]_vars

NextPipeline == OrchStart \/ OrchStop \/ RunPipeline \/ PageAssembled \/ AgentError

\* the orchestrator's pipeline runs
SpecPipeline == Init /\ [][NextPipeline]_vars

NextRetry ==
  \/ Register \/ UpdateStatus
  \/ SubmitRetry \/ ProcessQueue \/ CompleteTask \/ FailTask

\* the retry policy: reports of success and failure for a few tasks
SpecRetry == Init /\ [][NextRetry]_vars

NextPriority ==
  \/ RegisterAny \/ ReadyAny
  \/ SubmitPriority \/ ProcessQueue \/ ReportSuccess \/ ReportFailure

\* the priority backlog: tasks of three priorities, retried and served by three workers
SpecPriority == Init /\ [][NextPriority]_vars

NextRegistry == RegisterAgain \/ UpdateStatus \/ Unregister

\* the registry alone: ids registered, registered again and unregistered
SpecRegistry == Init /\ [][NextRegistry]_vars

NextWorker ==
  \/ NewAgent \/ Start \/ Stop \/ LifeContinue
  \/ SubmitRetry \/ ProcessQueue \/ WorkerFinish

\* the handling of assignments by AutonomousAgent objects, for a few tasks
SpecWorker == Init /\ [][NextWorker]_vars

NextErrors ==
  \/ SubscribeQuiet \/ SubscribeFailing
  \/ PublishToFailing \/ RejectionCaught

\* the bus with agents whose handlers fail
SpecErrors == Init /\ [][NextErrors]_vars

\* ---- DataIngestionAgent
ICommit(running, log) ==
  /\ ingestRunning' = running
  /\ ingestLog' = log
  /\ UNCHANGED <<qvars, bvars, pvars, wvars, svars>>

IngestStart == ICommit(TRUE, ingestLog)

IngestStop == ICommit(FALSE, ingestLog)

\* RAW_DATA_RECEIVED is published with payload rawData
RawDataReceived == \E rawData \in RawInputs :
  /\ Len(ingestLog) < MaxRawData
  /\ ICommit(ingestRunning, Append(ingestLog, ingestWrappedHandler(ingestRunning, rawData)))

NextIngestion == IngestStart \/ IngestStop \/ RawDataReceived

\* the data normalizer reacting to raw input
SpecIngestion == Init /\ [][NextIngestion]_vars

NextReset == Subscribe \/ Unsubscribe \/ Publish \/ Reset

\* the message bus with resets between the calls
SpecReset == Init /\ [][NextReset]_vars

\* ---- TaskQueue.waitForTask
\* the timeoutMs arguments tried: a budget of one poll and one of three
Timeouts == {CheckInterval, 2 * CheckInterval + 20}

\* error messages passed to failTask: a text, or the empty message of `new Error()`
ErrorMessages == {"err", ""}

checkNoTimeout(s, w) ==
  LET t == w.taskId IN
    IF ~Known(s, t) THEN [w EXCEPT !.state = "rejected", !.value = "not found"]
    ELSE IF s.tasks[t].status = COMPLETED
         THEN [w EXCEPT !.state = "resolved", !.value = s.tasks[t].result]
    ELSE IF s.tasks[t].status = FAILED
         THEN [w EXCEPT !.state = "rejected",
                        !.value = IF s.tasks[t].error \in {None, ""}
                                  THEN "Task failed" ELSE s.tasks[t].error]
    ELSE [w EXCEPT !.elapsed = @ + CheckInterval]

\* check, the polling function of waitForTask, on the wait record w
check(s, w) ==
  LET t == w.taskId IN
    IF ~Known(s, t) THEN [w EXCEPT !.state = "rejected", !.value = "not found"]
    ELSE IF s.tasks[t].status = COMPLETED
         THEN [w EXCEPT !.state = "resolved", !.value = s.tasks[t].result]
    ELSE IF s.tasks[t].status = FAILED
         THEN [w EXCEPT !.state = "rejected",
                        !.value = IF s.tasks[t].error \in {None, ""}
                                  THEN "Task failed" ELSE s.tasks[t].error]
    ELSE IF w.elapsed + CheckInterval >= w.timeoutMs
         THEN [w EXCEPT !.elapsed = @ + CheckInterval,
                        !.state = "rejected", !.value = "timeout"]
    ELSE [w EXCEPT !.elapsed = @ + CheckInterval]

\* waitForTask(taskId, timeoutMs): the first check runs in the call
waitForTask(s, t, timeoutMs) ==
  check(s, [taskId |-> t, timeoutMs |-> timeoutMs, elapsed |-> 0,
            state |-> "polling", value |-> None])

WCommit(ws) ==
  /\ waits' = ws
  /\ UNCHANGED <<qvars, bvars, pvars, ivars, svars>>

WaitForTask == \E t \in 1..(MaxRetryTasks + 1), timeoutMs \in Timeouts :
  /\ Len(waits) < MaxWaits
  /\ WCommit(Append(waits, waitForTask(QState, t, timeoutMs)))

\* setTimeout(check, checkInterval) fires
Poll == \E i \in 1..Len(waits) :
  /\ waits[i].state = "polling"
  /\ WCommit([waits EXCEPT ![i] = check(QState, waits[i])])

\* a worker's task fails with the message of the error it caught
ReportFailureWith == \E t \in DOMAIN tasks, err \in ErrorMessages :
  /\ tasks[t].status \in {ASSIGNED, IN_PROGRESS}
  /\ Commit(failTask(QState, t, err))

NextWait ==
  \/ RegisterAny \/ ReadyAny
  \/ SubmitRetry \/ ProcessQueue \/ ReportSuccess \/ ReportFailureWith
  \/ WaitForTask \/ Poll

\* callers waiting for tasks that workers complete, fail and retry
SpecWait == Init /\ [][NextWait]_vars

NextDispatch == SubscribeAsync \/ Publish \/ HandlerResumes

\* publish to handlers that suspend
SpecDispatch == Init /\ [][NextDispatch]_vars

NextRequest ==
  \/ SubscribeCorrelating \/ Request
  \/ PublishResponse \/ RequestTimeout

\* request and its responses
SpecRequest == Init /\ [][NextRequest]_vars

\* the public queue and registry API, with workers that are registry records only
SpecQueue == Init /\ [][NextQueue]_vars

\* AutonomousAgent objects executing the tasks the queue assigns to them
SpecAgents == Init /\ [][NextAgents]_vars
====
